---- MODULE Spec2Model ----
(***************************************************************************)
(* A model of build-tool: the task executor (task_executor.go) with its    *)
(* memo / single-flight (task_memo.go), key store (task_key_store.go),     *)
(* task-key computer, local cache and file-stamp cache.                    *)
(*                                                                         *)
(* Ten specifications share the module:                                    *)
(*   Spec       the executor: goroutines started by ExecuteTasks, the memo,*)
(*              the single-flight group, the key store, the workspace and  *)
(*              the local cache, over consecutive executors (runs) on one  *)
(*              cache, with the -sandbox flag off or on; digests are       *)
(*              computed by hashing;                                       *)
(*   SpecLive   the executor on the acyclic task maps under a scheduler    *)
(*              that runs every goroutine that can run;                    *)
(*   SpecCache  LocalCache.Restore / StoreFromDir at the level of single   *)
(*              file-system operations, run by tasks of one run that have  *)
(*              the same task key;                                         *)
(*   SpecStamp  FileStampCache.Lookup / Update and the hashing loop of     *)
(*              ComputeTaskKey, with running commands that write the file; *)
(*   SpecPayload ComputeTaskKey as a function of its arguments, applied to *)
(*              two argument lists;                                        *)
(*   SpecKey    consecutive ComputeTaskKey calls of one task, and of a     *)
(*              task that depends on it, through the stamp cache, with     *)
(*              writes of the input between the calls;                     *)
(*   SpecStore  LocalCache.Store and LocalCache.Restore called one after   *)
(*              the other for one key, on files that have inodes, with     *)
(*              commands that write the workspace between the calls;       *)
(*   SpecLock   the threads of one process, statement by statement where   *)
(*              a mutex is taken or released or a file or a subprocess is  *)
(*              involved: run() with Load and Save, and the goroutines of  *)
(*              the tasks;                                                 *)
(*   SpecExpand ExpandFileSpecs with globs, negations and escapes applied  *)
(*              to spec lists on directory trees, and applied again to its *)
(*              own result;                                                *)
(*   SpecPipe   executeTaskRun from cmd.Start to the return after g.Wait:  *)
(*              the process writing lines and exiting, cmd.Wait, and the   *)
(*              two copyTaskOutput goroutines.                             *)
(***************************************************************************)
EXTENDS Naturals, Sequences, FiniteSets, TLC

VARIABLES
    \* ---- Spec: the executor
    taskMap,    \* TaskMap: task id -> Task (fixed during a behaviour)
    rootIDs,    \* the taskIDs argument of each root ExecuteTasks call
    go,         \* goroutine -> [pc, err, taskKey, depKeys, call, tmp]
    frame,      \* ExecuteTasks invocation -> [state, next, gerr, ret]
    memoBy,     \* TaskMemo.by
    groupM,     \* singleflight.Group.m: task id -> the call in flight
    calls,      \* singleflight call objects, named by the leading goroutine
    keysBy,     \* TaskKeyStore.by
    ws,         \* workspace files: path -> content
    cache,      \* local cache: task key -> record (manifest and outputs)
    bodyRuns,   \* history: number of doExecuteTask invocations per task id
    cmdRuns,    \* history: number of commands started per task id
    hits,       \* history: number of "CACHE HIT" lines per task id
    fnRes,      \* history: the errors returned by doExecuteTask per task id
    computed,   \* history: the keys ComputeKey returned per task id
    run,        \* the number of the executor (process) now running
    first,      \* history: what the first run left behind
    sandbox,    \* TaskExecutor.sandbox: the -sandbox flag
    sandboxRootDir, \* whether the run's sandbox root exists (sandboxRootDir # "")
    sandboxDirs,    \* directory name task-<name> -> its work directory, or NoSandbox
    cleanedUp,      \* run(): the deferred CleanupSandbox of this run was called
    stampEntries,   \* FileStampCache.entries: path -> the digest recorded, or Absent
    \* ---- SpecCache: one task directory of the local cache
    tdir,       \* what the name tasks/<key> refers to
    tw,         \* the tasks with that key: position in Restore / StoreFromDir
    renames,    \* history: the tasks whose os.Rename succeeded, in order
    \* ---- SpecStamp: one input file and its entry in the stamp cache
    fileHist,   \* the contents the file has had; its stamp is their number
    entries,    \* FileStampCache.entries[path]
    hs,         \* the goroutines computing a key over the file
    \* ---- SpecPayload: two calls of ComputeTaskKey
    keyArgs,    \* the arguments of the two calls
    keyOut,     \* what the two calls returned
    \* ---- SpecKey: calls of ComputeTaskKey with a stamp cache
    disk,       \* path -> [content, mtime] of the input files
    clock,      \* the time the file system stamps a write with
    stampCache, \* FileStampCache.entries
    since,      \* history: what happened since the last call
    keyLog,     \* history: the calls of ComputeTaskKey, in order
    \* ---- SpecStore: Store and Restore of one key
    lcWs,       \* workspace: path -> inode, or NoFile
    lcRec,      \* tasks/<key>: the manifest and outputs/: path -> inode
    lcData,     \* inode -> content
    lcTmp,      \* the number of tmp-task-* directories in tasks/
    lcLast,     \* history: the last call and its result
    lcStored,   \* history: what the last successful Store stored
    \* ---- SpecLock: the threads of one process and the three mutexes
    lkHeld,     \* mutex -> the thread that holds it, or NoThread
    lkPc,       \* thread -> the statement it is at
    lkFile,     \* what reading the persisted stamp cache file gives
    lkLoad,     \* what FileStampCache.Load returned
    lkEntries,  \* FileStampCache.entries has an entry for the input file
    lkDirty,    \* FileStampCache.dirty
    \* ---- SpecExpand: ExpandFileSpecs on a directory tree
    exFs,       \* the files, directories and special files of the tree
    exSpecs,    \* the specs argument
    exOut,      \* what ExpandFileSpecs(specs) returned
    exAgain,    \* what ExpandFileSpecs returned, given the paths of exOut
    \* ---- SpecPipe: one command, its two pipes and the goroutines reading them
    cmdProc,    \* the process: [state, code, written: stream -> lines written]
    pipeBuf,    \* stream -> the lines written to the pipe and not yet read
    pipeOpen,   \* stream -> whether the read end of the pipe is open
    copyPc,     \* stream -> the position of copyTaskOutput on that pipe
    logOut,     \* Logger.out: the lines TaskLine wrote, in order
    runPc,      \* the position of executeTaskRun
    waitErr,    \* whether cmd.Wait returned an error
    runErr      \* what executeTaskRun returned

sbVars == <<sandbox, sandboxRootDir, sandboxDirs, cleanedUp>>

execVars == <<taskMap, rootIDs, go, frame, memoBy, groupM, calls, keysBy, ws,
              cache, bodyRuns, cmdRuns, hits, fnRes, computed, run, first, sbVars,
              stampEntries>>

cacheVars == <<tdir, tw, renames>>

stampVars == <<fileHist, entries, hs>>

keyVars == <<keyArgs, keyOut, disk, clock, stampCache, since, keyLog>>

storeVars == <<lcWs, lcRec, lcData, lcTmp, lcLast, lcStored>>

lockVars == <<lkHeld, lkPc, lkFile, lkLoad, lkEntries, lkDirty>>

expandVars == <<exFs, exSpecs, exOut, exAgain>>

pipeVars == <<cmdProc, pipeBuf, pipeOpen, copyPc, logOut, runPc, waitErr, runErr>>

vars == <<execVars, cacheVars, stampVars, keyVars, storeVars, lockVars, expandVars,
          pipeVars>>

(***************************************************************************)
(* Bounds of the model.                                                    *)
(***************************************************************************)
MaxRuns == 2    \* executors constructed one after the other on one cache
MaxDepth == 3   \* nesting depth of ExecuteTasks below a root call
NumTwins == 3   \* tasks of one run that have the same task key
NumOutputs == 2 \* output files of such a task
NumHashers == 2 \* concurrent key computations over one input file
MaxWrites == 2  \* writes of the input file by running commands
MaxCalls == 3   \* consecutive calls of ComputeTaskKey for one task
MaxClock == 1   \* ticks of the clock that stamps the writes
NumInodes == 6  \* inode numbers of the file system
MaxTmp == 1     \* temporary directories that killed processes leave
NumWorkers == 2  \* goroutines that execute tasks at the same time
MaxSpecs == 2    \* length of the spec list given to ExpandFileSpecs
MaxLines == 1    \* lines the command writes to each of stdout and stderr

\* run() calls ExecuteTasks once on each executor; the calls that run
\* concurrently are the ones doExecuteTask makes for the dependencies.
Calls == {1}

(***************************************************************************)
(* Values.                                                                 *)
(***************************************************************************)
NoErr == <<>>
NoKey == [none |-> TRUE]
NoCall == <<>>
Absent == <<"absent">>

ErrNotFound(id) == <<"task not found", id>>
ErrMissingKey(dep) == <<"missing dependency task key", dep>>
ErrComputeKey(id) == <<"compute task key", id>>
ErrExpandOutputs(id) == <<"expand outputs", id>>
ErrStore(id) == <<"cache store error", id>>
ErrExec(id) == <<"execute task", id>>
ErrStart(id) == <<"start task", id>>
ErrReadOutput(id) == <<"read output for task", id>>
ErrExpandInputs(id) == <<"expand inputs", id>>
ErrExpandDepOutputs(dep) == <<"expand outputs for dependency", dep>>

Range(s) == {s[i] : i \in 1..Len(s)}

(***************************************************************************)
(* The task graphs.  Diamond is scenario S5 of the specification: X and Y  *)
(* depend on util.  Y is cacheable (the default) and declares no outputs.  *)
(***************************************************************************)
Diamond ==
    [util |-> [ID |-> "util", Inputs |-> <<"u.c">>, Outputs |-> <<"u.o">>,
               Dependencies |-> <<>>, Command |-> "cc -c u.c", Cache |-> TRUE],
     X    |-> [ID |-> "X", Inputs |-> <<"u.o">>, Outputs |-> <<"x">>,
               Dependencies |-> <<"util">>, Command |-> "cc u.o -o x", Cache |-> TRUE],
     Y    |-> [ID |-> "Y", Inputs |-> <<>>, Outputs |-> <<>>,
               Dependencies |-> <<"util">>, Command |-> "./check", Cache |-> TRUE]]

\* Chain is scenario S2: C depends on B, B on A.  B is not cacheable.
Chain ==
    [A |-> [ID |-> "A", Inputs |-> <<"a.c">>, Outputs |-> <<"a.o">>,
            Dependencies |-> <<>>, Command |-> "cc -c a.c", Cache |-> TRUE],
     B |-> [ID |-> "B", Inputs |-> <<"a.o">>, Outputs |-> <<"b.o">>,
            Dependencies |-> <<"A">>, Command |-> "ld -r a.o -o b.o", Cache |-> FALSE],
     C |-> [ID |-> "C", Inputs |-> <<"b.o">>, Outputs |-> <<"c">>,
            Dependencies |-> <<"B">>, Command |-> "cc b.o -o c", Cache |-> TRUE]]

\* Two dependency cycles, which LoadTaskMapFromConfig accepts (every
\* dependency is a task of the map): P and Q depend on each other, S on
\* itself.
Cycle ==
    [P |-> [ID |-> "P", Inputs |-> <<>>, Outputs |-> <<>>,
            Dependencies |-> <<"Q">>, Command |-> "true", Cache |-> FALSE],
     Q |-> [ID |-> "Q", Inputs |-> <<>>, Outputs |-> <<>>,
            Dependencies |-> <<"P">>, Command |-> "true", Cache |-> FALSE],
     S |-> [ID |-> "S", Inputs |-> <<>>, Outputs |-> <<>>,
            Dependencies |-> <<"S">>, Command |-> "true", Cache |-> FALSE]]

\* Two independent tasks whose ids differ in one character that
\* sanitizeSandboxName replaces; neither is cacheable or declares outputs.
Twin ==
    ("g.h" :> [ID |-> "g.h", Inputs |-> <<"u.c">>, Outputs |-> <<>>,
               Dependencies |-> <<>>, Command |-> "test -e u.c", Cache |-> FALSE]) @@
    ("g_h" :> [ID |-> "g_h", Inputs |-> <<"a.c">>, Outputs |-> <<>>,
               Dependencies |-> <<>>, Command |-> "test -e a.c", Cache |-> FALSE])

TaskMaps == {Diamond, Chain, Cycle, Twin}

TaskIDs == {"util", "X", "Y", "A", "B", "C", "P", "Q", "S", "g.h", "g_h"}
Paths == {"u.c", "u.o", "x", "a.c", "a.o", "b.o", "c"}

\* The files of the workspace that no task writes.
Sources == {"u.c", "a.c"}

\* The id lists a root call may be given; "nope" is in no task map.
RootLists == {<<"X", "Y">>, <<"util", "X", "Y">>, <<"Y", "nope">>, <<"C">>, <<"P">>, <<"S">>,
              <<"g.h", "g_h">>}

\* The lists that are also built with the -sandbox flag.
SandboxLists == {<<"X", "Y">>, <<"Y", "nope">>, <<"C">>, <<"g.h", "g_h">>}

\* The lists given with a task map: the ones whose first id is a task of it.
RootListsOf(tm, lists) == {l \in lists : Len(l) = 0 \/ l[1] \in DOMAIN tm}

(***************************************************************************)
(* Goroutines.  A root call c is the node <<c>>; the goroutine that        *)
(* ExecuteTasks starts for the i-th id of the list of node f is f \o <<i>>.*)
(* A node also names the ExecuteTasks invocation (frame) it makes.         *)
(***************************************************************************)
Roots == {<<c>> : c \in Calls}

RECURSIVE NodesBelow(_, _, _, _)
\* The goroutines that the ExecuteTasks invocation of node f, given ids, can
\* start, with those started below them, to the depth d.
NodesBelow(tm, f, ids, d) ==
    IF d = 0 THEN {}
    ELSE UNION {{f \o <<i>>} \cup NodesBelow(tm, f \o <<i>>, tm[ids[i]].Dependencies, d - 1) :
                i \in {j \in 1..Len(ids) : ids[j] \in DOMAIN tm}}

AllNodes(tm, rids) == UNION {NodesBelow(tm, <<c>>, rids[c], MaxDepth) : c \in Calls}

Nodes == DOMAIN go
Frames == DOMAIN frame

\* Every goroutine and every invocation some build of the model has.
NodeSpace ==
    UNION {UNION {AllNodes(tm, ids) : ids \in [Calls -> RootListsOf(tm, RootLists)]} :
           tm \in TaskMaps}
FrameSpace == Roots \cup NodeSpace

Parent(p) == SubSeq(p, 1, Len(p) - 1)

RECURSIVE IDs(_)
\* The id list of the ExecuteTasks invocation made by node f.
IDs(f) ==
    IF Len(f) = 1 THEN rootIDs[f[1]]
    ELSE LET ids == IDs(Parent(f))
             i == f[Len(f)]
         IN IF i <= Len(ids) /\ ids[i] \in DOMAIN taskMap
            THEN taskMap[ids[i]].Dependencies
            ELSE <<>>

\* The task a goroutine executes (the t captured by the closure).
TaskOf(p) == taskMap[IDs(Parent(p))[p[Len(p)]]]

Children(f) == {p \in Nodes : Len(p) = Len(f) + 1 /\ Parent(p) = f}

IsPrefix(f, p) == Len(f) < Len(p) /\ SubSeq(p, 1, Len(f)) = f

(***************************************************************************)
(* Sorting.  sort.Strings / sort.Slice put a list in the one ascending     *)
(* order; the model takes the one representative of the list's             *)
(* permutations, which is the same for every order of the same elements.   *)
(***************************************************************************)
IsPermutation(q, s) ==
    /\ Len(q) = Len(s)
    /\ \E f \in [1..Len(s) -> 1..Len(s)] :
          /\ \A i, j \in 1..Len(s) : i # j => f[i] # f[j]
          /\ \A i \in 1..Len(s) : q[i] = s[f[i]]

\* A sort that leaves the list as it is.
SortStringsKeeps(s) == s

SortStrings(s) ==
    IF Len(s) <= 1 THEN s
    ELSE CHOOSE q \in [1..Len(s) -> Range(s)] : IsPermutation(q, s)

(***************************************************************************)
(* The task-key computer.  The hash is modelled injectively.               *)
(***************************************************************************)
hashFile(content) == <<"blake2b", content>>

\* ExpandFileSpecs that does not stat the paths.
ExpandFileSpecsNoStat(files, specs) ==
    [err |-> FALSE,
     paths |-> IF Len(specs) <= 1 THEN specs
               ELSE CHOOSE q \in [1..Cardinality({specs[i] : i \in 1..Len(specs)}) ->
                                      {specs[i] : i \in 1..Len(specs)}] :
                        {q[i] : i \in 1..Len(q)} = {specs[i] : i \in 1..Len(specs)}]

\* ExpandFileSpecs on literal paths: a missing path is an error, the result
\* is sorted and duplicate-free.
ExpandFileSpecs(files, specs) ==
    IF \E i \in 1..Len(specs) : files[specs[i]] = Absent
    THEN [err |-> TRUE, paths |-> <<>>]
    ELSE [err |-> FALSE,
          paths |-> SortStrings(CHOOSE q \in [1..Cardinality(Range(specs)) -> Range(specs)] :
                                    Range(q) = Range(specs))]

\* ExpandFileSpecsInDir: the expansion rooted at a directory (the work
\* directory of a sandbox).
ExpandFileSpecsInDir(dir, specs) == ExpandFileSpecs(dir, specs)

\* The names of files in the models.
PathNames == Paths \cup {"x", "z", "y", "w"}

\* filepath.ToSlash where the separator is the slash (the build of
\* stamp_stat_unix.go): nothing to replace.
ToSlash(s) == s

\* strings.TrimPrefix.
TrimPrefix(s, prefix) ==
    IF \E t \in PathNames : s = prefix \o t
    THEN CHOOSE t \in PathNames : s = prefix \o t
    ELSE s

\* Lines 157-163: the output specs in slash form without a leading "./",
\* sorted.
outputSpecs(task) ==
    SortStrings([i \in 1..Len(task.Outputs) |-> TrimPrefix(ToSlash(task.Outputs[i]), "./")])

\* A payload that leaves the outputs out.
taskKeyPayloadNoOutputs(task, depKeys, tInputs) ==
    [v |-> 1, command |-> task.Command, dependencies |-> depKeys,
     outputs |-> <<>>, inputs |-> tInputs]

\* Lines 198-204: the payload.  marshalTaskPayload writes its fields in this
\* order, and different strings or lists have different encodings: the
\* record stands for the canonical bytes.
taskKeyPayload(task, depKeys, tInputs) ==
    [v |-> 1, command |-> task.Command, dependencies |-> depKeys,
     outputs |-> outputSpecs(task), inputs |-> tInputs]

\* Lines 206-212: the canonical bytes and the hex of their BLAKE2b-256 sum.
TaskKeyOf(payload) == [err |-> FALSE, key |-> [sum |-> payload], json |-> payload]

\* ComputeTaskKey where every digest comes from hashFile.
ComputeTaskKey(task, depTaskKeys, files) ==
    LET depKeys == SortStrings(depTaskKeys)
        expanded == ExpandFileSpecs(files, task.Inputs)
        tInputs == [i \in 1..Len(expanded.paths) |->
                       [path |-> expanded.paths[i],
                        digest |-> hashFile(files[expanded.paths[i]])]]
    IN IF expanded.err
       THEN [err |-> TRUE, key |-> NoKey, json |-> NoKey]
       ELSE TaskKeyOf(taskKeyPayload(task, depKeys, tInputs))

(***************************************************************************)
(* The local cache, as the executor sees it (SpecCache has the file        *)
(* operations one by one).                                                 *)
(***************************************************************************)
\* Restore that never finds a record.
RestoreNever(c, taskKey, files) == [hit |-> FALSE, files |-> files]

\* A Restore that takes a record without outputs for a hit.
RestoreEmptyHit(c, taskKey, files) ==
    IF taskKey \notin DOMAIN c THEN [hit |-> FALSE, files |-> files]
    ELSE IF \E i \in 1..Len(c[taskKey].outputs) :
                c[taskKey].files[c[taskKey].outputs[i]] = Absent
         THEN [hit |-> FALSE, files |-> files]
    ELSE [hit |-> TRUE,
          files |-> [p \in Paths |-> IF p \in Range(c[taskKey].outputs)
                                     THEN c[taskKey].files[p] ELSE files[p]]]

\* Restore: a miss without a manifest or with an empty output list, else
\* every output of the manifest is linked into the workspace.
Restore(c, taskKey, files) ==
    IF taskKey \notin DOMAIN c THEN [hit |-> FALSE, files |-> files]
    ELSE IF Len(c[taskKey].outputs) = 0 THEN [hit |-> FALSE, files |-> files]
    ELSE IF \E i \in 1..Len(c[taskKey].outputs) :
                c[taskKey].files[c[taskKey].outputs[i]] = Absent
         THEN [hit |-> FALSE, files |-> files]
    ELSE [hit |-> TRUE,
          files |-> [p \in Paths |-> IF p \in Range(c[taskKey].outputs)
                                     THEN c[taskKey].files[p] ELSE files[p]]]

\* A temporary directory with the manifest and without the outputs.
StoreTmpNoFiles(taskKey, taskJSON, outputs, files) ==
    [task_key |-> taskKey, task |-> taskJSON, outputs |-> SortStrings(outputs),
     files |-> [p \in Paths |-> Absent]]

\* The temporary directory of StoreFromDir, filled: the copied outputs and
\* the manifest.
StoreTmp(taskKey, taskJSON, outputs, files) ==
    [task_key |-> taskKey, task |-> taskJSON, outputs |-> SortStrings(outputs),
     files |-> [p \in Paths |-> IF p \in Range(outputs) THEN files[p] ELSE Absent]]

RemoveAll(c, taskKey) == [k \in DOMAIN c \ {taskKey} |-> c[k]]

\* os.Rename(tmpDir, tDir) fails when tDir is a directory that is not empty.
RenameFails(c, taskKey) == taskKey \in DOMAIN c

Rename(c, taskKey, tmp) == [k \in DOMAIN c \cup {taskKey} |-> IF k = taskKey THEN tmp ELSE c[k]]

(***************************************************************************)
(* TaskMemo and TaskKeyStore.                                              *)
(***************************************************************************)
NoEntry == [done |-> FALSE, err |-> NoErr]

\* tryGet that never finds a completed entry.
tryGetMiss(taskID) == [ok |-> FALSE, entry |-> NoEntry]

\* TaskMemo.tryGet: (entry, ok).
tryGet(taskID) ==
    IF memoBy[taskID].done
    THEN [ok |-> TRUE, entry |-> memoBy[taskID]]
    ELSE [ok |-> FALSE, entry |-> NoEntry]

\* store that records the completion and drops the error.
storeDone(taskID, err) == [memoBy EXCEPT ![taskID] = [done |-> TRUE, err |-> NoErr]]

\* TaskMemo.store: the map after m.by[taskID] = taskExecEntry{done: true, err: err}.
store(taskID, err) == [memoBy EXCEPT ![taskID] = [done |-> TRUE, err |-> err]]

\* Set that leaves the map as it is.
SetNothing(taskID, taskKey) == keysBy

\* TaskKeyStore.Set: the map after s.by[taskID] = taskKey.
Set(taskID, taskKey) == [keysBy EXCEPT ![taskID] = taskKey]

\* A key store that hands out no dependency keys.
GetDepKeysNone(task) == [err |-> NoErr, keys |-> <<>>]

\* TaskKeyStore.GetDepKeys: the keys of the dependencies in order, or the
\* error for the first dependency without a key.
GetDepKeys(task) ==
    LET deps == task.Dependencies
        missing == {i \in 1..Len(deps) : keysBy[deps[i]] = NoKey}
    IN IF missing # {}
       THEN [err |-> ErrMissingKey(deps[CHOOSE i \in missing : \A j \in missing : i <= j]),
             keys |-> <<>>]
       ELSE [err |-> NoErr, keys |-> [i \in 1..Len(deps) |-> keysBy[deps[i]]]]

(***************************************************************************)
(* Init of the executor.                                                   *)
(***************************************************************************)
NoGo == [pc |-> "idle", err |-> NoErr, taskKey |-> NoKey, depKeys |-> <<>>,
         call |-> NoCall, tmp |-> NoKey]
NoFrame == [state |-> "none", next |-> 1, gerr |-> NoErr, ret |-> NoErr, failed |-> <<>>]

\* A frame as ExecuteTasks enters its loop over ids.
NewFrame(ids) ==
    [state |-> IF Len(ids) = 0 THEN "wait" ELSE "loop", next |-> 1,
     gerr |-> NoErr, ret |-> NoErr, failed |-> <<>>]

\* NewTaskExecutor: empty memo, group and key store; the root calls start.
NewTaskExecutor(tm, ids) ==
    /\ go = [p \in AllNodes(tm, ids) |-> NoGo]
    /\ frame = [f \in Roots \cup AllNodes(tm, ids) |->
                   IF f \in Roots THEN NewFrame(ids[f[1]]) ELSE NoFrame]
    /\ memoBy = [t \in TaskIDs |-> NoEntry]
    /\ groupM = [t \in TaskIDs |-> NoCall]
    /\ calls = [p \in AllNodes(tm, ids) |-> NoEntry]
    /\ keysBy = [t \in TaskIDs |-> NoKey]
    /\ bodyRuns = [t \in TaskIDs |-> 0]
    /\ cmdRuns = [t \in TaskIDs |-> 0]
    /\ hits = [t \in TaskIDs |-> 0]
    /\ fnRes = [t \in TaskIDs |-> <<>>]
    /\ computed = [t \in TaskIDs |-> <<>>]

\* The characters of the task ids, and the ones sanitizeSandboxName keeps:
\* letters, digits, '-' and '_'.
Runes(id) ==
    CASE id = "util" -> <<"u", "t", "i", "l">>
      [] id = "g.h" -> <<"g", ".", "h">>
      [] id = "g_h" -> <<"g", "_", "h">>
      [] OTHER -> <<id>>
KeptRunes ==
    {"a", "b", "c", "d", "e", "f", "g", "h", "i", "j", "k", "l", "m",
     "n", "o", "p", "q", "r", "s", "t", "u", "v", "w", "x", "y", "z",
     "A", "B", "C", "D", "E", "F", "G", "H", "I", "J", "K", "L", "M",
     "N", "O", "P", "Q", "R", "S", "T", "U", "V", "W", "X", "Y", "Z",
     "0", "1", "2", "3", "4", "5", "6", "7", "8", "9", "-", "_"}

\* sanitizeSandboxName: every other character becomes '_'; the empty name
\* becomes "task".
sanitizeSandboxName(id) ==
    IF Runes(id) = <<>> THEN <<"t", "a", "s", "k">>
    ELSE [i \in 1..Len(Runes(id)) |->
             IF Runes(id)[i] \in KeptRunes THEN Runes(id)[i] ELSE "_"]

SandboxNames == {sanitizeSandboxName(t) : t \in TaskIDs}
NoSandbox == <<"no directory">>

NoFirst == [ok |-> {}, keys |-> [t \in TaskIDs |-> NoKey], ws |-> [p \in Paths |-> Absent]]

\* A build of some of the root lists on an empty cache.
InitExecOf(lists) ==
    /\ taskMap \in TaskMaps
    /\ rootIDs \in [Calls -> RootListsOf(taskMap, lists)]
    /\ NewTaskExecutor(taskMap, rootIDs)
    /\ ws \in {[p \in Paths |-> IF p \in Sources THEN c ELSE Absent] : c \in {<<"src", 0>>, Absent}}
    /\ cache = [k \in {} |-> NoKey]
    /\ run = 1
    /\ first = NoFirst
    /\ sandbox \in {b \in BOOLEAN : b => \A c \in Calls : rootIDs[c] \in SandboxLists}
    /\ sandboxRootDir = FALSE
    /\ sandboxDirs = [d \in SandboxNames |-> NoSandbox]
    /\ cleanedUp = FALSE
    /\ stampEntries = [q \in Paths |-> Absent]

InitExec == InitExecOf(RootLists)

\* The executor part of the state in the specifications of the cache and of
\* the stamp cache, which do not move it.
ExecIdle == InitExecOf({<<>>}) /\ ws["u.c"] = Absent /\ taskMap = Diamond /\ ~sandbox

(***************************************************************************)
(* ExecuteTasks: the loop that starts one goroutine per id, and g.Wait().  *)
(***************************************************************************)
\* One iteration of the loop: an id that is not in the task map makes
\* ExecuteTasks return at once; otherwise g.Go starts the goroutine.
ExecuteTasksLoop(f) ==
    /\ f \in Frames
    /\ frame[f].state = "loop"
    /\ LET ids == IDs(f)
           i == frame[f].next
       IN IF ids[i] \notin DOMAIN taskMap
          THEN /\ frame' = [frame EXCEPT ![f].state = "ret", ![f].ret = ErrNotFound(ids[i])]
               /\ UNCHANGED go
          ELSE /\ f \o <<i>> \in Nodes
               /\ frame' = [frame EXCEPT ![f].next = i + 1,
                                         ![f].state = IF i = Len(ids) THEN "wait" ELSE "loop"]
               /\ go' = [go EXCEPT ![f \o <<i>>].pc = "tryGet"]
    /\ UNCHANGED <<stampEntries, taskMap, rootIDs, memoBy, groupM, calls, keysBy, ws, cache,
                   bodyRuns, cmdRuns, hits, fnRes, computed, run, first>>
    /\ UNCHANGED <<cacheVars, stampVars, keyVars, storeVars, lockVars, expandVars, pipeVars>>
    /\ UNCHANGED sbVars

\* Wait that returns without waiting.
WaitReturnsAtOnce(f) == TRUE

\* A Wait that waits for every goroutine ExecuteTasks could start at any
\* depth below the call, started or not.
WaitReturnsBelow(f) == \A p \in Nodes : IsPrefix(f, p) => go[p].pc = "done"

\* errgroup.Group.Wait returns when every goroutine of the group returned.
WaitReturns(f) == \A p \in Children(f) : go[p].pc = "done"

ExecuteTasksWait(f) ==
    /\ f \in Frames
    /\ frame[f].state = "wait"
    /\ WaitReturns(f)
    /\ frame' = [frame EXCEPT ![f].state = "ret", ![f].ret = frame[f].gerr]
    /\ UNCHANGED <<stampEntries, taskMap, rootIDs, go, memoBy, groupM, calls, keysBy, ws, cache,
                   bodyRuns, cmdRuns, hits, fnRes, computed, run, first>>
    /\ UNCHANGED <<cacheVars, stampVars, keyVars, storeVars, lockVars, expandVars, pipeVars>>
    /\ UNCHANGED sbVars

\* A group that keeps the error of the last goroutine to fail.
LastError(gerr, e) == IF e = NoErr THEN gerr ELSE e

\* errgroup.Group: errOnce keeps the error of the first goroutine to fail.
FirstError(gerr, e) == IF gerr = NoErr THEN e ELSE gerr

\* The goroutine of g.Go returns e.  failed lists the goroutines of the
\* group that returned an error, in the order in which they returned.
GoReturn(p, e) ==
    /\ go' = [go EXCEPT ![p].pc = "done", ![p].err = e]
    /\ frame' = [frame EXCEPT ![Parent(p)].gerr = FirstError(@, e),
                              ![Parent(p)].failed = IF e = NoErr THEN @ ELSE Append(@, p)]

(***************************************************************************)
(* executeTask = TaskMemo.Do(task.ID, doExecuteTask).                      *)
(***************************************************************************)
\* Do, line 41: the check of the memo before the single-flight group.
MemoDoTryGet(p) ==
    /\ p \in Nodes
    /\ go[p].pc = "tryGet"
    /\ LET r == tryGet(TaskOf(p).ID)
       IN IF r.ok
          THEN GoReturn(p, r.entry.err)
          ELSE /\ go' = [go EXCEPT ![p].pc = "groupDo"]
               /\ UNCHANGED frame
    /\ UNCHANGED <<stampEntries, taskMap, rootIDs, memoBy, groupM, calls, keysBy, ws, cache,
                   bodyRuns, cmdRuns, hits, fnRes, computed, run, first>>
    /\ UNCHANGED <<cacheVars, stampVars, keyVars, storeVars, lockVars, expandVars, pipeVars>>
    /\ UNCHANGED sbVars

\* singleflight.Group.Do: join the call in flight for the key, or become
\* its leader.
GroupDo(p) ==
    /\ p \in Nodes
    /\ go[p].pc = "groupDo"
    /\ LET t == TaskOf(p).ID
       IN IF groupM[t] # NoCall
          THEN /\ go' = [go EXCEPT ![p].pc = "groupWait", ![p].call = groupM[t]]
               /\ UNCHANGED <<groupM, calls>>
          ELSE /\ go' = [go EXCEPT ![p].pc = "inner", ![p].call = p]
               /\ groupM' = [groupM EXCEPT ![t] = p]
               /\ calls' = [calls EXCEPT ![p] = NoEntry]
    /\ UNCHANGED <<stampEntries, taskMap, rootIDs, frame, memoBy, keysBy, ws, cache,
                   bodyRuns, cmdRuns, hits, fnRes, computed, run, first>>
    /\ UNCHANGED <<cacheVars, stampVars, keyVars, storeVars, lockVars, expandVars, pipeVars>>
    /\ UNCHANGED sbVars

\* What a caller that joined a call gets when the call is done.
SharedResult(c) == calls[c].err

\* A caller that joined waits for the leader and returns its result.
GroupWait(p) ==
    /\ p \in Nodes
    /\ go[p].pc = "groupWait"
    /\ calls[go[p].call].done
    /\ GoReturn(p, SharedResult(go[p].call))
    /\ UNCHANGED <<stampEntries, taskMap, rootIDs, memoBy, groupM, calls, keysBy, ws, cache,
                   bodyRuns, cmdRuns, hits, fnRes, computed, run, first>>
    /\ UNCHANGED <<cacheVars, stampVars, keyVars, storeVars, lockVars, expandVars, pipeVars>>
    /\ UNCHANGED sbVars

\* The error of the dependency group ignored.
DepsFailedNever(err) == FALSE

\* A dependency group that returned an error ends doExecuteTask.
DepsFailed(err) == err # NoErr

\* fn (doExecuteTask) returns e; m.store(taskID, err) comes next.
FnReturn(p, e) ==
    /\ go' = [go EXCEPT ![p].pc = "store", ![p].err = e]
    /\ fnRes' = [fnRes EXCEPT ![TaskOf(p).ID] = Append(@, e)]

\* Do, lines 46-50: the leader checks the memo again; on a miss fn starts:
\* doExecuteTask calls ExecuteTasks for the dependencies, if any.
MemoDoInner(p) ==
    /\ p \in Nodes
    /\ go[p].pc = "inner"
    /\ LET task == TaskOf(p)
           r == tryGet(task.ID)
       IN IF r.ok
          THEN /\ go' = [go EXCEPT ![p].pc = "groupDone", ![p].err = r.entry.err]
               /\ UNCHANGED <<frame, bodyRuns>>
          ELSE /\ bodyRuns' = [bodyRuns EXCEPT ![task.ID] = @ + 1]
               /\ IF Len(task.Dependencies) > 0
                  THEN /\ go' = [go EXCEPT ![p].pc = "deps"]
                       /\ frame' = [frame EXCEPT ![p] = NewFrame(task.Dependencies)]
                  ELSE /\ go' = [go EXCEPT ![p].pc = "getDepKeys"]
                       /\ UNCHANGED frame
    /\ UNCHANGED <<stampEntries, taskMap, rootIDs, memoBy, groupM, calls, keysBy, ws, cache,
                   cmdRuns, hits, fnRes, computed, run, first>>
    /\ UNCHANGED <<cacheVars, stampVars, keyVars, storeVars, lockVars, expandVars, pipeVars>>
    /\ UNCHANGED sbVars

\* doExecuteTask, lines 87-91: ExecuteTasks for the dependencies returned.
DepsReturned(p) ==
    /\ p \in Nodes
    /\ go[p].pc = "deps"
    /\ frame[p].state = "ret"
    /\ IF DepsFailed(frame[p].ret)
       THEN FnReturn(p, frame[p].ret)
       ELSE /\ go' = [go EXCEPT ![p].pc = "getDepKeys"]
            /\ UNCHANGED fnRes
    /\ UNCHANGED <<stampEntries, taskMap, rootIDs, frame, memoBy, groupM, calls, keysBy, ws, cache,
                   bodyRuns, cmdRuns, hits, computed, run, first>>
    /\ UNCHANGED <<cacheVars, stampVars, keyVars, storeVars, lockVars, expandVars, pipeVars>>
    /\ UNCHANGED sbVars

\* doExecuteTask, lines 93-96.
ReadDepKeys(p) ==
    /\ p \in Nodes
    /\ go[p].pc = "getDepKeys"
    /\ LET r == GetDepKeys(TaskOf(p))
       IN IF r.err # NoErr
          THEN FnReturn(p, r.err)
          ELSE /\ go' = [go EXCEPT ![p].pc = "computeKey", ![p].depKeys = r.keys]
               /\ UNCHANGED fnRes
    /\ UNCHANGED <<stampEntries, taskMap, rootIDs, frame, memoBy, groupM, calls, keysBy, ws, cache,
                   bodyRuns, cmdRuns, hits, computed, run, first>>
    /\ UNCHANGED <<cacheVars, stampVars, keyVars, storeVars, lockVars, expandVars, pipeVars>>
    /\ UNCHANGED sbVars

\* A test that takes every task for cacheable.
CacheableAlways(task) == TRUE

\* if task.Cache: doExecuteTask line 104, executeTaskRun lines 262 and 289.
Cacheable(task) == task.Cache

\* ComputeTaskKey, lines 174-196: the stamp cache has an entry for every
\* input of a key that was computed: the one Lookup found, or the one that
\* Update recorded after hashFile.
StampInputs(files, inputs) ==
    [q \in Paths |-> IF q \in Range(inputs) THEN hashFile(files[q]) ELSE stampEntries[q]]

\* UpdateOutputStamps that records nothing.
UpdateOutputStampsNever(files, outputs) == stampEntries

\* BuildState.UpdateOutputStamps: an entry for every output that hashFile
\* can read.
UpdateOutputStamps(files, outputs) ==
    [q \in Paths |-> IF q \in Range(outputs) /\ files[q] # Absent THEN hashFile(files[q])
                     ELSE stampEntries[q]]

\* doExecuteTask, lines 98-102: ComputeKey, then keys.Set.
ComputeKey(p) ==
    /\ p \in Nodes
    /\ go[p].pc = "computeKey"
    /\ LET task == TaskOf(p)
           r == ComputeTaskKey(task, go[p].depKeys, ws)
       IN IF r.err
          THEN /\ FnReturn(p, ErrComputeKey(task.ID))
               /\ UNCHANGED <<keysBy, computed, stampEntries>>
          ELSE /\ keysBy' = Set(task.ID, r.key)
               /\ stampEntries' = StampInputs(ws, task.Inputs)
               /\ computed' = [computed EXCEPT ![task.ID] = Append(@, r.key)]
               /\ go' = [go EXCEPT ![p].pc = IF Cacheable(task) THEN "restore" ELSE "start",
                                   ![p].taskKey = r.key]
               /\ UNCHANGED fnRes
    /\ UNCHANGED <<taskMap, rootIDs, frame, memoBy, groupM, calls, ws, cache,
                   bodyRuns, cmdRuns, hits, run, first>>
    /\ UNCHANGED <<cacheVars, stampVars, keyVars, storeVars, lockVars, expandVars, pipeVars>>
    /\ UNCHANGED sbVars

\* doExecuteTask, lines 104-115: the lookup in the local cache.
CacheLookup(p) ==
    /\ p \in Nodes
    /\ go[p].pc = "restore"
    /\ LET r == Restore(cache, go[p].taskKey, ws)
       IN IF r.hit
          THEN /\ ws' = r.files
               /\ hits' = [hits EXCEPT ![TaskOf(p).ID] = @ + 1]
               /\ FnReturn(p, NoErr)
          ELSE /\ go' = [go EXCEPT ![p].pc = "start"]
               /\ UNCHANGED <<ws, hits, fnRes>>
    /\ UNCHANGED <<stampEntries, taskMap, rootIDs, frame, memoBy, groupM, calls, keysBy, cache,
                   bodyRuns, cmdRuns, computed, run, first>>
    /\ UNCHANGED <<cacheVars, stampVars, keyVars, storeVars, lockVars, expandVars, pipeVars>>
    /\ UNCHANGED sbVars

\* The work directory of the task's sandbox, and the deferred cleanup():
\* os.RemoveAll(sandboxDir); a no-op in workspace mode.
WorkDir(task) == sandboxDirs[sanitizeSandboxName(task.ID)]
CleanupKeeps(task) == sandboxDirs
Cleanup(task) == [sandboxDirs EXCEPT ![sanitizeSandboxName(task.ID)] = NoSandbox]

\* depOutputsForStaging: the outputs of a dependency and where to read them:
\* the record of the dependency in the cache if it is cacheable and has
\* one, else its declared outputs in the workspace.
depOutputsForStaging(depTask) ==
    IF depTask.Cache /\ keysBy[depTask.ID] = NoKey
    THEN [err |-> ErrMissingKey(depTask.ID), outs |-> <<>>, srcDir |-> "cache"]
    ELSE IF depTask.Cache /\ keysBy[depTask.ID] \in DOMAIN cache
    THEN [err |-> NoErr, outs |-> cache[keysBy[depTask.ID]].outputs, srcDir |-> "cache"]
    ELSE IF Len(depTask.Outputs) = 0
    THEN [err |-> NoErr, outs |-> <<>>, srcDir |-> "workspace"]
    ELSE IF ExpandFileSpecs(ws, depTask.Outputs).err
    THEN [err |-> ErrExpandDepOutputs(depTask.ID), outs |-> <<>>, srcDir |-> "workspace"]
    ELSE [err |-> NoErr, outs |-> ExpandFileSpecs(ws, depTask.Outputs).paths,
          srcDir |-> "workspace"]

\* The work directory after staging: a symlink for every expanded input and
\* every dependency output; dependency outputs win over inputs.
Staged(task, ins) ==
    LET deps == {taskMap[task.Dependencies[i]] : i \in 1..Len(task.Dependencies)}
        from(q) == {d \in deps : q \in Range(depOutputsForStaging(d).outs)}
    IN [q \in Paths |->
          IF from(q) # {}
          THEN <<"symlink", depOutputsForStaging(CHOOSE d \in from(q) : TRUE).srcDir, q>>
          ELSE IF q \in Range(ins) THEN <<"symlink", "workspace", q>>
          ELSE Absent]

\* executeTaskRun, lines 146-225 (sandbox mode): the per-task directory is
\* removed and created again, inputs and dependency outputs are staged.
SandboxStage(p) ==
    /\ p \in Nodes
    /\ go[p].pc = "start"
    /\ sandbox
    /\ sandboxRootDir' = TRUE
    /\ LET task == TaskOf(p)
           ins == IF Len(task.Inputs) > 0 THEN ExpandFileSpecs(ws, task.Inputs)
                  ELSE [err |-> FALSE, paths |-> <<>>]
           bad == {i \in 1..Len(task.Dependencies) :
                      depOutputsForStaging(taskMap[task.Dependencies[i]]).err # NoErr}
       IN IF ins.err
          THEN /\ FnReturn(p, ErrExpandInputs(task.ID))
               /\ sandboxDirs' = Cleanup(task)
          ELSE IF bad # {}
          THEN /\ FnReturn(p, depOutputsForStaging(
                        taskMap[task.Dependencies[CHOOSE i \in bad : \A j \in bad : i <= j]]).err)
               /\ sandboxDirs' = Cleanup(task)
          ELSE /\ go' = [go EXCEPT ![p].pc = "staged"]
               /\ sandboxDirs' = [sandboxDirs EXCEPT ![sanitizeSandboxName(task.ID)] =
                                      Staged(task, ins.paths)]
               /\ UNCHANGED fnRes
    /\ UNCHANGED <<stampEntries, taskMap, rootIDs, frame, memoBy, groupM, calls, keysBy, ws, cache,
                   bodyRuns, cmdRuns, hits, computed, run, first, sandbox, cleanedUp>>
    /\ UNCHANGED <<cacheVars, stampVars, keyVars, storeVars, lockVars, expandVars, pipeVars>>

\* executeTaskRun, lines 229-245: sh -c <command> starts.
\* cmd.Dir is the work directory in sandbox mode; cmd.Start fails when that
\* directory is not there.
CommandStart(p) ==
    /\ p \in Nodes
    /\ go[p].pc = IF sandbox THEN "staged" ELSE "start"
    /\ IF sandbox /\ WorkDir(TaskOf(p)) = NoSandbox
       THEN /\ FnReturn(p, ErrStart(TaskOf(p).ID))
            /\ UNCHANGED cmdRuns
       ELSE /\ cmdRuns' = [cmdRuns EXCEPT ![TaskOf(p).ID] = @ + 1]
            /\ go' = [go EXCEPT ![p].pc = "cmd"]
            /\ UNCHANGED fnRes
    /\ UNCHANGED <<stampEntries, taskMap, rootIDs, frame, memoBy, groupM, calls, keysBy, ws, cache,
                   bodyRuns, hits, computed, run, first>>
    /\ UNCHANGED <<cacheVars, stampVars, keyVars, storeVars, lockVars, expandVars, pipeVars>>
    /\ UNCHANGED sbVars

\* The files a command that exits with status 0 leaves: its outputs.  A
\* command that fails is taken to leave the workspace as it was.
CommandWrites(task, files) ==
    [q \in Paths |-> IF q \in Range(task.Outputs) THEN <<task.ID, run>> ELSE files[q]]

\* What sh -c <command> may do: exit with a status other than 0, write its
\* outputs and exit with status 0, or exit with status 0 having written
\* nothing.
CommandOutcomes == {"fail", "wrote", "nothing"}

\* executeTaskRun, lines 251-278: cmd.Wait returns.  The command wrote in
\* its working directory: the workspace, or the work directory of the
\* sandbox.  In workspace mode a task that is not cacheable is done.
CommandExit(p) ==
    /\ p \in Nodes
    /\ go[p].pc = "cmd"
    /\ LET task == TaskOf(p)
       IN \E out \in CommandOutcomes :
            IF out = "fail"
            THEN /\ FnReturn(p, ErrExec(task.ID))
                 /\ sandboxDirs' = Cleanup(task)
                 /\ UNCHANGED ws
            ELSE /\ ws' = IF out = "wrote" /\ ~sandbox THEN CommandWrites(task, ws) ELSE ws
                 /\ IF sandbox
                    THEN /\ sandboxDirs' = IF out = "wrote" /\ WorkDir(task) # NoSandbox
                                           THEN [sandboxDirs EXCEPT ![sanitizeSandboxName(task.ID)] =
                                                    CommandWrites(task, WorkDir(task))]
                                           ELSE sandboxDirs
                         /\ go' = [go EXCEPT ![p].pc = IF Cacheable(task) THEN "storeCopy"
                                                       ELSE "export"]
                         /\ UNCHANGED fnRes
                    ELSE /\ UNCHANGED sandboxDirs
                         /\ IF Cacheable(task)
                            THEN /\ go' = [go EXCEPT ![p].pc = "storeCopy"]
                                 /\ UNCHANGED fnRes
                            ELSE FnReturn(p, NoErr)
    /\ UNCHANGED <<stampEntries, taskMap, rootIDs, frame, memoBy, groupM, calls, keysBy, cache,
                   bodyRuns, cmdRuns, hits, computed, run, first, sandbox, sandboxRootDir,
                   cleanedUp>>
    /\ UNCHANGED <<cacheVars, stampVars, keyVars, storeVars, lockVars, expandVars, pipeVars>>

\* executeTaskRun, lines 263-271 (workspace mode) or 281-290 (sandbox mode),
\* and StoreFromDir up to the removal of the old record: the outputs are
\* expanded in the directory the command ran in and copied from it to the
\* temporary directory, the manifest is written, tasks/<key> is removed.
StoreCopy(p) ==
    /\ p \in Nodes
    /\ go[p].pc = "storeCopy"
    /\ LET task == TaskOf(p)
           baseDir == IF sandbox THEN WorkDir(task) ELSE ws
           expanded == IF Len(task.Outputs) = 0 THEN [err |-> FALSE, paths |-> <<>>]
                       ELSE IF sandbox THEN ExpandFileSpecsInDir(baseDir, task.Outputs)
                       ELSE ExpandFileSpecs(baseDir, task.Outputs)
       IN IF expanded.err
          THEN /\ FnReturn(p, ErrExpandOutputs(task.ID))
               /\ sandboxDirs' = Cleanup(task)
               /\ UNCHANGED cache
          ELSE /\ go' = [go EXCEPT ![p].pc = "storeRename",
                                   ![p].tmp = StoreTmp(go[p].taskKey, go[p].taskKey.sum,
                                                       expanded.paths, baseDir)]
               /\ cache' = RemoveAll(cache, go[p].taskKey)
               /\ UNCHANGED <<fnRes, sandboxDirs>>
    /\ UNCHANGED <<stampEntries, taskMap, rootIDs, frame, memoBy, groupM, calls, keysBy, ws,
                   bodyRuns, cmdRuns, hits, computed, run, first, sandbox, sandboxRootDir,
                   cleanedUp>>
    /\ UNCHANGED <<cacheVars, stampVars, keyVars, storeVars, lockVars, expandVars, pipeVars>>

\* StoreFromDir, line 162: the rename that publishes the record.  In
\* sandbox mode the record is then restored into the workspace.
StoreRename(p) ==
    /\ p \in Nodes
    /\ go[p].pc = "storeRename"
    /\ IF RenameFails(cache, go[p].taskKey)
       THEN /\ FnReturn(p, ErrStore(TaskOf(p).ID))
            /\ sandboxDirs' = Cleanup(TaskOf(p))
            /\ UNCHANGED <<cache, stampEntries>>
       ELSE /\ cache' = Rename(cache, go[p].taskKey, go[p].tmp)
            /\ IF sandbox
               THEN /\ go' = [go EXCEPT ![p].pc = "restoreAfter"]
                    /\ UNCHANGED <<fnRes, sandboxDirs, stampEntries>>
               ELSE /\ FnReturn(p, NoErr)
                    /\ stampEntries' = UpdateOutputStamps(ws, TaskOf(p).Outputs)
                    /\ UNCHANGED sandboxDirs
    /\ UNCHANGED <<taskMap, rootIDs, frame, memoBy, groupM, calls, keysBy, ws,
                   bodyRuns, cmdRuns, hits, computed, run, first, sandbox, sandboxRootDir,
                   cleanedUp>>
    /\ UNCHANGED <<cacheVars, stampVars, keyVars, storeVars, lockVars, expandVars, pipeVars>>

\* executeTaskRun, lines 293-295 (sandbox mode, cacheable): Restore into the
\* workspace; whether it was a hit is not looked at.
SandboxRestore(p) ==
    /\ p \in Nodes
    /\ go[p].pc = "restoreAfter"
    /\ ws' = Restore(cache, go[p].taskKey, ws).files
    /\ sandboxDirs' = Cleanup(TaskOf(p))
    /\ stampEntries' = UpdateOutputStamps(ws', TaskOf(p).Outputs)
    /\ FnReturn(p, NoErr)
    /\ UNCHANGED <<taskMap, rootIDs, frame, memoBy, groupM, calls, keysBy, cache,
                   bodyRuns, cmdRuns, hits, computed, run, first, sandbox, sandboxRootDir,
                   cleanedUp>>
    /\ UNCHANGED <<cacheVars, stampVars, keyVars, storeVars, lockVars, expandVars, pipeVars>>

\* executeTaskRun, lines 281-288 and 296-304 (sandbox mode, not cacheable):
\* the outputs are expanded in the work directory and copied to the
\* workspace.
SandboxExport(p) ==
    /\ p \in Nodes
    /\ go[p].pc = "export"
    /\ LET task == TaskOf(p)
           expanded == IF Len(task.Outputs) > 0
                       THEN ExpandFileSpecsInDir(WorkDir(task), task.Outputs)
                       ELSE [err |-> FALSE, paths |-> <<>>]
       IN IF expanded.err
          THEN /\ FnReturn(p, ErrExpandOutputs(task.ID))
               /\ UNCHANGED <<ws, stampEntries>>
          ELSE /\ ws' = [q \in Paths |-> IF q \in Range(expanded.paths)
                                         THEN WorkDir(task)[q] ELSE ws[q]]
               /\ stampEntries' = UpdateOutputStamps(ws', task.Outputs)
               /\ FnReturn(p, NoErr)
    /\ sandboxDirs' = Cleanup(TaskOf(p))
    /\ UNCHANGED <<taskMap, rootIDs, frame, memoBy, groupM, calls, keysBy, cache,
                   bodyRuns, cmdRuns, hits, computed, run, first, sandbox, sandboxRootDir,
                   cleanedUp>>
    /\ UNCHANGED <<cacheVars, stampVars, keyVars, storeVars, lockVars, expandVars, pipeVars>>

\* Do, line 51: m.store(taskID, err).
MemoStore(p) ==
    /\ p \in Nodes
    /\ go[p].pc = "store"
    /\ memoBy' = store(TaskOf(p).ID, go[p].err)
    /\ go' = [go EXCEPT ![p].pc = "groupDone"]
    /\ UNCHANGED <<stampEntries, taskMap, rootIDs, frame, groupM, calls, keysBy, ws, cache,
                   bodyRuns, cmdRuns, hits, fnRes, computed, run, first>>
    /\ UNCHANGED <<cacheVars, stampVars, keyVars, storeVars, lockVars, expandVars, pipeVars>>
    /\ UNCHANGED sbVars

\* singleflight: the leader's function returned; the call is done, the key
\* leaves the group, and Do returns.
GroupDone(p) ==
    /\ p \in Nodes
    /\ go[p].pc = "groupDone"
    /\ calls' = [calls EXCEPT ![p] = [done |-> TRUE, err |-> go[p].err]]
    /\ groupM' = [groupM EXCEPT ![TaskOf(p).ID] = IF @ = p THEN NoCall ELSE @]
    /\ GoReturn(p, go[p].err)
    /\ UNCHANGED <<stampEntries, taskMap, rootIDs, memoBy, keysBy, ws, cache,
                   bodyRuns, cmdRuns, hits, fnRes, computed, run, first>>
    /\ UNCHANGED <<cacheVars, stampVars, keyVars, storeVars, lockVars, expandVars, pipeVars>>
    /\ UNCHANGED sbVars

\* Every root call returned and no goroutine is left.
Quiet == /\ \A f \in Roots : frame[f].state = "ret"
         /\ \A p \in Nodes : go[p].pc \in {"idle", "done"}

\* What CleanupSandbox leaves of the sandbox root and of the directories
\* in it: nothing is touched without -sandbox or while sandboxRootDir is
\* "", else os.RemoveAll(e.sandboxRootDir).
RemoveRoot ==
    IF ~sandbox \/ ~sandboxRootDir
    THEN [root |-> sandboxRootDir, dirs |-> sandboxDirs]
    ELSE [root |-> FALSE, dirs |-> [d \in SandboxNames |-> NoSandbox]]

\* run(), lines 74-78: the deferred CleanupSandbox, once ExecuteTasks
\* returned.
CleanupSandbox ==
    /\ Quiet
    /\ ~cleanedUp
    /\ cleanedUp' = TRUE
    /\ sandboxRootDir' = RemoveRoot.root
    /\ sandboxDirs' = RemoveRoot.dirs
    /\ UNCHANGED <<stampEntries, taskMap, rootIDs, go, frame, memoBy, groupM, calls, keysBy, ws, cache,
                   bodyRuns, cmdRuns, hits, fnRes, computed, run, first, sandbox>>
    /\ UNCHANGED <<cacheVars, stampVars, keyVars, storeVars, lockVars, expandVars, pipeVars>>

\* The process ended and the same build is started again: a new executor
\* on the workspace and the cache the first one left.
NewExecutor ==
    /\ run < MaxRuns
    /\ Quiet
    /\ cleanedUp
    /\ cleanedUp' = FALSE
    /\ run' = run + 1
    /\ first' = [ok |-> {t \in TaskIDs : memoBy[t].done /\ memoBy[t].err = NoErr},
                 keys |-> keysBy, ws |-> ws]
    /\ go' = [p \in Nodes |-> NoGo]
    /\ frame' = [f \in Frames |-> IF f \in Roots THEN NewFrame(rootIDs[f[1]]) ELSE NoFrame]
    /\ memoBy' = [t \in TaskIDs |-> NoEntry]
    /\ groupM' = [t \in TaskIDs |-> NoCall]
    /\ calls' = [p \in Nodes |-> NoEntry]
    /\ keysBy' = [t \in TaskIDs |-> NoKey]
    /\ bodyRuns' = [t \in TaskIDs |-> 0]
    /\ cmdRuns' = [t \in TaskIDs |-> 0]
    /\ hits' = [t \in TaskIDs |-> 0]
    /\ fnRes' = [t \in TaskIDs |-> <<>>]
    /\ computed' = [t \in TaskIDs |-> <<>>]
    /\ sandboxRootDir' = FALSE
    /\ sandboxDirs' = [d \in SandboxNames |-> NoSandbox]
    /\ UNCHANGED <<stampEntries, taskMap, rootIDs, ws, cache, sandbox>>
    /\ UNCHANGED <<cacheVars, stampVars, keyVars, storeVars, lockVars, expandVars, pipeVars>>

NextExec ==
    \/ \E f \in FrameSpace : ExecuteTasksLoop(f) \/ ExecuteTasksWait(f)
    \/ \E p \in NodeSpace :
          \/ MemoDoTryGet(p) \/ GroupDo(p) \/ GroupWait(p) \/ MemoDoInner(p)
          \/ DepsReturned(p) \/ ReadDepKeys(p) \/ ComputeKey(p) \/ CacheLookup(p)
          \/ SandboxStage(p) \/ CommandStart(p) \/ CommandExit(p)
          \/ StoreCopy(p) \/ StoreRename(p) \/ SandboxRestore(p) \/ SandboxExport(p)
          \/ MemoStore(p) \/ GroupDone(p)
    \/ CleanupSandbox
    \/ NewExecutor

\* The positions of a goroutine in which it calls Restore or Store.
CachePcs == {"restore", "storeCopy", "storeRename", "restoreAfter"}

StoresAt(p, k, pc) ==
    /\ go[p].pc = pc
    /\ go[p].taskKey = k
    /\ go'[p] # go[p]
    /\ TaskOf(p).Cache
    /\ cmdRuns[TaskOf(p).ID] = 1
    /\ fnRes[TaskOf(p).ID] = <<>>

CommandSucceeded(t) == fnRes[t] = <<NoErr>> /\ cmdRuns[t] = 1

\* C34, as claimed: once the command of a task ran and its execution
\* returned without error, the stamp cache has an entry for every output of
\* the task that is in the workspace, whether or not the task is cacheable and in workspace and in
\* sandbox mode.
OutputsStamped ==
    \A t \in DOMAIN taskMap :
        CommandSucceeded(t) =>
            \A o \in Range(taskMap[t].Outputs) :
                ws[o] # Absent => stampEntries[o] # Absent

\* The same for the tasks that are cacheable and for sandbox mode, where
\* the entry holds the digest of the output as it is in the workspace.
OutputsStampedUnlessPlain ==
    \A t \in DOMAIN taskMap :
        (CommandSucceeded(t) /\ (taskMap[t].Cache \/ sandbox)) =>
            \A o \in Range(taskMap[t].Outputs) : stampEntries[o] = hashFile(ws[o])

\* B, which is not cacheable, ran its command in the sandbox and returned:
\* the stamp cache has the digest of b.o.
OutputsStampedWitness ==
    /\ taskMap = Chain
    /\ sandbox
    /\ run = 1
    /\ CommandSucceeded("B")
    /\ stampEntries["b.o"] = hashFile(ws["b.o"])

\* B ran its command in the workspace and returned without error, and the
\* stamp cache has no entry for b.o.
OutputNotStamped ==
    /\ taskMap = Chain
    /\ ~sandbox
    /\ CommandSucceeded("B")
    /\ ws["b.o"] # Absent
    /\ stampEntries["b.o"] = Absent

\* The files of a directory, the files a task declares as inputs together
\* with the declared outputs of its direct dependencies, and the step in
\* which the command of goroutine p starts.
FilesIn(dir) == IF dir = NoSandbox THEN {} ELSE {q \in Paths : dir[q] # Absent}
StagingSet(task) ==
    Range(task.Inputs) \cup
    UNION {Range(taskMap[task.Dependencies[i]].Outputs) : i \in 1..Len(task.Dependencies)}
CommandStarts(p) == go[p].pc \in {"start", "staged"} /\ go'[p].pc = "cmd"

\* C28: when the command of a task starts in sandbox mode, the files in the
\* work directory of the task are exactly its declared inputs and the
\* outputs of its direct dependencies, so a file of the workspace that is
\* neither is not in it; in workspace mode the command starts in the
\* workspace itself.
SandboxIsolation ==
    [][\A p \in Nodes :
          CommandStarts(p) =>
              /\ sandbox => FilesIn(WorkDir(TaskOf(p))) = StagingSet(TaskOf(p))
              /\ ~sandbox => go[p].pc = "start"]_vars

\* The same for the tasks whose sanitised name is the name of no other
\* task of the map.
OwnSandboxName(task) ==
    \A t \in DOMAIN taskMap :
        sanitizeSandboxName(t) = sanitizeSandboxName(task.ID) => t = task.ID
SandboxIsolationOwnName ==
    [][\A p \in Nodes :
          (CommandStarts(p) /\ sandbox /\ OwnSandboxName(TaskOf(p))) =>
              /\ FilesIn(WorkDir(TaskOf(p))) = StagingSet(TaskOf(p))
              /\ \A q \in Paths \ StagingSet(TaskOf(p)) : WorkDir(TaskOf(p))[q] = Absent]_vars

\* The command of X is running in its sandbox: u.o, the output of util, is
\* in the work directory, and u.c, which is in the workspace and which X
\* does not declare, is not.
SandboxIsolationWitness ==
    /\ sandbox
    /\ taskMap = Diamond
    /\ \E p \in Nodes : TaskOf(p).ID = "X" /\ go[p].pc = "cmd"
    /\ ws["u.c"] # Absent
    /\ FilesIn(sandboxDirs[sanitizeSandboxName("X")]) = {"u.o"}

\* The command of g.h is running in a work directory that holds the input
\* of g_h and not its own.
SharedSandbox ==
    /\ sandbox
    /\ taskMap = Twin
    /\ \E p \in Nodes : TaskOf(p).ID = "g.h" /\ go[p].pc = "cmd"
    /\ FilesIn(sandboxDirs[sanitizeSandboxName("g.h")]) = {"a.c"}

\* Goroutine p is in executeTaskRun between the creation of its sandbox
\* directory and the deferred cleanup.
InSandbox(p) ==
    sandbox /\ go[p].pc \in {"staged", "cmd", "storeCopy", "storeRename", "restoreAfter", "export"}

\* C37: in sandbox mode two goroutines that are in executeTaskRun for
\* tasks with different ids have different sandbox directories, and the
\* step of one goroutine leaves the directory of every other goroutine
\* that is in executeTaskRun as it was.
SandboxNotShared ==
    [][\A p \in Nodes :
          InSandbox(p) =>
              /\ \A q \in Nodes :
                    (InSandbox(q) /\ TaskOf(q).ID # TaskOf(p).ID) =>
                        sanitizeSandboxName(TaskOf(q).ID) # sanitizeSandboxName(TaskOf(p).ID)
              /\ go'[p] = go[p] =>
                    sandboxDirs'[sanitizeSandboxName(TaskOf(p).ID)] = WorkDir(TaskOf(p))]_vars

\* The command of g_h is running and its sandbox directory is gone: g.h
\* returned and removed it.
SandboxRemovedByOther ==
    /\ sandbox
    /\ taskMap = Twin
    /\ \E p \in Nodes : TaskOf(p).ID = "g_h" /\ go[p].pc = "cmd"
    /\ fnRes["g.h"] # <<>>
    /\ sandboxDirs[sanitizeSandboxName("g_h")] = NoSandbox

\* The positions of a goroutine inside executeTaskRun, and the step in
\* which goroutine p returns from it.
RunPcs == {"start", "staged", "cmd", "storeCopy", "storeRename", "restoreAfter", "export"}
ReturnsFromRun(p) == go[p].pc \in RunPcs /\ go'[p].pc = "store"

ChainBuild == taskMap = Chain /\ rootIDs[1] = <<"C">>
ChainEdges == {<<"A", "B">>, <<"B", "C">>}
BuildReturned(err) == frame[<<1>>].state = "ret" /\ frame[<<1>>].ret = err

\* C12: in the build of C in the chain C -> B -> A each of A, B, C is
\* executed exactly once, in that order: a dependent computes its key and
\* starts its command only after its dependency returned successfully from
\* doExecuteTask (command finished, key published), the dependent's key is
\* computed from the dependency's key, no body and no command runs twice,
\* and a build that returned successfully ran every body once and, on a
\* cache that was empty, every command once.
ChainOrder ==
    ChainBuild =>
        /\ \A e \in ChainEdges :
              LET dep == e[1]
                  t == e[2]
              IN /\ (computed[t] # <<>> \/ cmdRuns[t] > 0) =>
                        /\ fnRes[dep] = <<NoErr>>
                        /\ keysBy[dep] # NoKey
                        /\ \A p \in Nodes : TaskOf(p).ID = dep =>
                               go[p].pc \in {"idle", "store", "groupDone", "done",
                                             "tryGet", "groupDo", "groupWait", "inner"}
                 /\ computed[t] # <<>> =>
                        /\ Len(computed[t]) = 1
                        /\ computed[t][1].sum.dependencies = <<keysBy[dep]>>
                        /\ computed[dep] = <<keysBy[dep]>>
        /\ \A t \in DOMAIN Chain : bodyRuns[t] <= 1 /\ cmdRuns[t] <= 1
        /\ BuildReturned(NoErr) =>
              /\ \A t \in DOMAIN Chain : bodyRuns[t] = 1
              /\ run = 1 => \A t \in DOMAIN Chain : cmdRuns[t] = 1

\* The build of C returned successfully on an empty cache: three commands
\* ran, and C's key holds B's key, which holds A's.
ChainOrderWitness ==
    /\ ChainBuild
    /\ run = 1
    /\ BuildReturned(NoErr)
    /\ \A t \in DOMAIN Chain : cmdRuns[t] = 1
    /\ keysBy["C"].sum.dependencies = <<keysBy["B"]>>
    /\ keysBy["B"].sum.dependencies = <<keysBy["A"]>>

\* The task of goroutine p ran to completion: the goroutine returned, and
\* if its task is cacheable and its command ran and doExecuteTask returned
\* nil, the record of the task is in the cache.
RanToCompletion(p) ==
    /\ go[p].pc = "done"
    /\ LET t == TaskOf(p)
       IN (t.Cache /\ cmdRuns[t.ID] > 0 /\ go[p].err = NoErr) => keysBy[t.ID] \in DOMAIN cache

\* C13: when a task of the group of an ExecuteTasks call failed and the
\* call has returned, the call returned the error of the first goroutine of
\* the group to fail, and every goroutine the call started ran to
\* completion before.
FirstErrorReported ==
    \A f \in Frames :
        (frame[f].state = "ret" /\ frame[f].failed # <<>>) =>
            /\ frame[f].ret = go[frame[f].failed[1]].err
            /\ \A p \in Children(f) : go[p].pc # "idle" => RanToCompletion(p)

\* The same for the calls that returned from g.Wait().
FirstErrorReportedByWait ==
    \A f \in Frames :
        (frame[f].state = "ret" /\ frame[f].failed # <<>> /\ frame[f].next > Len(IDs(f))) =>
            /\ frame[f].ret = go[frame[f].failed[1]].err
            /\ \A p \in Children(f) : RanToCompletion(p)

\* A call returned from g.Wait() after two of its tasks failed with
\* different errors.
FirstErrorReportedWitness ==
    \E f \in Frames :
        /\ frame[f].state = "ret"
        /\ Len(frame[f].failed) >= 2
        /\ go[frame[f].failed[1]].err # go[frame[f].failed[2]].err
        /\ frame[f].next > Len(IDs(f))

(***************************************************************************)
(* SpecCache: LocalCache.Restore and LocalCache.StoreFromDir on one task   *)
(* directory tasks/<key>, one file-system operation at a time.  The tasks  *)
(* are the tasks of one run whose keys are equal (same command, inputs,    *)
(* outputs and dependency keys): each does Restore and, on a miss, runs    *)
(* its command and does Store (doExecuteTask lines 105-117, executeTaskRun *)
(* lines 262-276).  A directory is named by the task whose temporary       *)
(* directory it was; the files of directory w are w's copies.              *)
(***************************************************************************)
Twins == 1..NumTwins
Outs == 1..NumOutputs

NoDir == [exists |-> FALSE, id |-> 0, manifest |-> FALSE, outDir |-> FALSE, files |-> {}]

\* The temporary directory of w when StoreFromDir has copied the outputs to
\* outputs/ and written manifest.json (lines 120-158).
TmpDir(w) == [exists |-> TRUE, id |-> w, manifest |-> TRUE, outDir |-> TRUE, files |-> Outs]

DirEmpty(d) == ~d.manifest /\ ~d.outDir

\* Readdirnames of the task directory.
Entries(d) ==
    (IF d.manifest THEN {"manifest.json"} ELSE {}) \cup (IF d.outDir THEN {"outputs"} ELSE {})

NoTwin == [pc |-> "restore", seen |-> 0, next |-> 1, got |-> [o \in Outs |-> 0],
           hit |-> "none", walk |-> 0, names |-> {}, inner |-> {}, res |-> "none"]

InitCache ==
    /\ tdir = NoDir
    /\ tw = [w \in Twins |-> NoTwin]
    /\ renames = <<>>

\* Restore, lines 55-75: os.ReadFile of the manifest; a miss when it is not
\* there (or lists no outputs).
RestoreReadManifest(w) ==
    /\ tw[w].pc = "restore"
    /\ tw' = IF tdir.exists /\ tdir.manifest /\ NumOutputs > 0
             THEN [tw EXCEPT ![w].pc = "stat", ![w].seen = tdir.id, ![w].next = 1]
             ELSE [tw EXCEPT ![w].pc = "store", ![w].hit = "miss"]
    /\ UNCHANGED <<tdir, renames>>
    /\ UNCHANGED <<execVars, stampVars, keyVars, storeVars, lockVars, expandVars, pipeVars>>

\* Restore, lines 78-86: os.Stat of one listed output; a miss when it is
\* not there.
RestoreStat(w) ==
    /\ tw[w].pc = "stat"
    /\ tw' = IF tdir.exists /\ tw[w].next \in tdir.files
             THEN IF tw[w].next = NumOutputs
                  THEN [tw EXCEPT ![w].pc = "link", ![w].next = 1]
                  ELSE [tw EXCEPT ![w].next = @ + 1]
             ELSE [tw EXCEPT ![w].pc = "store", ![w].hit = "miss"]
    /\ UNCHANGED <<tdir, renames>>
    /\ UNCHANGED <<execVars, stampVars, keyVars, storeVars, lockVars, expandVars, pipeVars>>

\* Restore, lines 91-105: os.Link of one listed output into the workspace;
\* an error when the source is gone.
RestoreLink(w) ==
    /\ tw[w].pc = "link"
    /\ tw' = IF tdir.exists /\ tw[w].next \in tdir.files
             THEN IF tw[w].next = NumOutputs
                  THEN [tw EXCEPT ![w].pc = "done", ![w].hit = "hit", ![w].got[tw[w].next] = tdir.id]
                  ELSE [tw EXCEPT ![w].next = @ + 1, ![w].got[tw[w].next] = tdir.id]
             ELSE [tw EXCEPT ![w].pc = "done", ![w].hit = "err"]
    /\ UNCHANGED <<tdir, renames>>
    /\ UNCHANGED <<execVars, stampVars, keyVars, storeVars, lockVars, expandVars, pipeVars>>

\* After a miss: the command, then StoreFromDir lines 114-158, which fill
\* the private temporary directory.
StoreFromDirTmp(w) ==
    /\ tw[w].pc = "store"
    /\ tw' = [tw EXCEPT ![w].pc = "rmTry"]
    /\ UNCHANGED <<tdir, renames>>
    /\ UNCHANGED <<execVars, stampVars, keyVars, storeVars, lockVars, expandVars, pipeVars>>

\* os.RemoveAll(tDir), line 161, first step: os.Remove(tDir), which removes
\* an empty directory; nothing to do when the name does not exist.
RemoveAllTry(w) ==
    /\ tw[w].pc = "rmTry"
    /\ IF ~tdir.exists \/ DirEmpty(tdir)
       THEN tdir' = NoDir /\ tw' = [tw EXCEPT ![w].pc = "rename"]
       ELSE tdir' = tdir /\ tw' = [tw EXCEPT ![w].pc = "rmOpen"]
    /\ UNCHANGED renames
    /\ UNCHANGED <<execVars, stampVars, keyVars, storeVars, lockVars, expandVars, pipeVars>>

\* os.RemoveAll: open the directory the name refers to now and read its
\* entries.
RemoveAllOpen(w) ==
    /\ tw[w].pc = "rmOpen"
    /\ tw' = IF tdir.exists
             THEN [tw EXCEPT ![w].pc = "rmWalk", ![w].walk = tdir.id, ![w].names = Entries(tdir)]
             ELSE [tw EXCEPT ![w].pc = "rename"]
    /\ UNCHANGED <<tdir, renames>>
    /\ UNCHANGED <<execVars, stampVars, keyVars, storeVars, lockVars, expandVars, pipeVars>>

\* os.RemoveAll: remove the next entry of the open directory, in the order
\* the directory lists them: manifest.json is unlinked, outputs is opened
\* and read.  Removing what is no longer there is not an error.
RemoveAllEntry(w) ==
    /\ tw[w].pc = "rmWalk"
    /\ tw[w].names # {}
    /\ \E n \in tw[w].names :
          IF n = "manifest.json"
          THEN /\ tdir' = IF tdir.id = tw[w].walk THEN [tdir EXCEPT !.manifest = FALSE] ELSE tdir
               /\ tw' = [tw EXCEPT ![w].names = @ \ {n}]
          ELSE /\ tdir' = tdir
               /\ tw' = [tw EXCEPT ![w].names = @ \ {n}, ![w].pc = "rmInner",
                                   ![w].inner = IF tdir.id = tw[w].walk THEN tdir.files ELSE {}]
    /\ UNCHANGED renames
    /\ UNCHANGED <<execVars, stampVars, keyVars, storeVars, lockVars, expandVars, pipeVars>>

\* os.RemoveAll inside outputs: unlink one file; after the last one, rmdir
\* outputs.
RemoveAllInner(w) ==
    /\ tw[w].pc = "rmInner"
    /\ IF tw[w].inner # {}
       THEN \E o \in tw[w].inner :
               /\ tdir' = IF tdir.id = tw[w].walk THEN [tdir EXCEPT !.files = @ \ {o}] ELSE tdir
               /\ tw' = [tw EXCEPT ![w].inner = @ \ {o}]
       ELSE /\ tdir' = IF tdir.id = tw[w].walk /\ tdir.files = {}
                       THEN [tdir EXCEPT !.outDir = FALSE] ELSE tdir
            /\ tw' = [tw EXCEPT ![w].pc = "rmWalk"]
    /\ UNCHANGED renames
    /\ UNCHANGED <<execVars, stampVars, keyVars, storeVars, lockVars, expandVars, pipeVars>>

\* os.RemoveAll, last step: rmdir of the name, which fails on a directory
\* that is not empty; line 161 drops the error.
RemoveAllRmdir(w) ==
    /\ tw[w].pc = "rmWalk"
    /\ tw[w].names = {}
    /\ tdir' = IF tdir.exists /\ DirEmpty(tdir) THEN NoDir ELSE tdir
    /\ tw' = [tw EXCEPT ![w].pc = "rename"]
    /\ UNCHANGED renames
    /\ UNCHANGED <<execVars, stampVars, keyVars, storeVars, lockVars, expandVars, pipeVars>>

\* os.Rename(tmpDir, tDir), line 162: replaces a missing or empty
\* directory; fails (ENOTEMPTY) on a directory that has entries, and
\* StoreFromDir returns that error.
StoreFromDirRename(w) ==
    /\ tw[w].pc = "rename"
    /\ IF tdir.exists /\ ~DirEmpty(tdir)
       THEN /\ tw' = [tw EXCEPT ![w].pc = "done", ![w].res = "err"]
            /\ UNCHANGED <<tdir, renames>>
       ELSE /\ tw' = [tw EXCEPT ![w].pc = "done", ![w].res = "ok"]
            /\ tdir' = TmpDir(w)
            /\ renames' = Append(renames, w)
    /\ UNCHANGED <<execVars, stampVars, keyVars, storeVars, lockVars, expandVars, pipeVars>>

NextCache ==
    \E w \in Twins :
        \/ RestoreReadManifest(w) \/ RestoreStat(w) \/ RestoreLink(w)
        \/ StoreFromDirTmp(w) \/ RemoveAllTry(w) \/ RemoveAllOpen(w)
        \/ RemoveAllEntry(w) \/ RemoveAllInner(w) \/ RemoveAllRmdir(w)
        \/ StoreFromDirRename(w)


(***************************************************************************)
(* SpecStamp: FileStampCache.Lookup / Update and the input loop of         *)
(* ComputeTaskKey (lines 174-196) on one input file that running commands  *)
(* may write.  The stamp is idealised: every write gives the file a stamp  *)
(* it never had (the number of contents it has had), so two contents never *)
(* share a stamp; the file is never removed.                               *)
(***************************************************************************)
Hashers == 1..NumHashers
Contents == {"a", "b"}

\* StatStamp(path) now, and the content of the file now.
StatStamp == Len(fileHist)
ReadFile == fileHist[Len(fileHist)]

NoStamp == [ok |-> FALSE, Stamp |-> 0, Digest |-> <<>>]
NoHasher == [pc |-> "lookup", d |-> <<>>, stamp |-> 0, hit |-> FALSE]

InitStamp ==
    /\ fileHist = <<"a">>
    /\ entries = NoStamp
    /\ hs = [h \in Hashers |-> NoHasher]

\* FileStampCache.Lookup under the mutex: the entry, then StatStamp, then
\* the comparison; a hit ends the iteration of the input loop.
Lookup(h) ==
    /\ hs[h].pc = "lookup"
    /\ hs' = IF entries.ok /\ entries.Stamp = StatStamp
             THEN [hs EXCEPT ![h].pc = "done", ![h].d = entries.Digest,
                             ![h].stamp = StatStamp, ![h].hit = TRUE]
             ELSE [hs EXCEPT ![h].pc = "hash"]
    /\ UNCHANGED <<fileHist, entries>>
    /\ UNCHANGED <<execVars, cacheVars, keyVars, storeVars, lockVars, expandVars, pipeVars>>

\* ComputeTaskKey line 185: hashFile(p) of the content the file has now.
HashInput(h) ==
    /\ hs[h].pc = "hash"
    /\ hs' = [hs EXCEPT ![h].pc = "updateStat", ![h].d = hashFile(ReadFile)]
    /\ UNCHANGED <<fileHist, entries>>
    /\ UNCHANGED <<execVars, cacheVars, keyVars, storeVars, lockVars, expandVars, pipeVars>>

\* FileStampCache.Update lines 142-145: StatStamp(path), before the mutex.
UpdateStat(h) ==
    /\ hs[h].pc = "updateStat"
    /\ hs' = [hs EXCEPT ![h].pc = "updateStore", ![h].stamp = StatStamp]
    /\ UNCHANGED <<fileHist, entries>>
    /\ UNCHANGED <<execVars, cacheVars, keyVars, storeVars, lockVars, expandVars, pipeVars>>

\* FileStampCache.Update lines 147-151: the entry is replaced.
UpdateStore(h) ==
    /\ hs[h].pc = "updateStore"
    /\ entries' = [ok |-> TRUE, Stamp |-> hs[h].stamp, Digest |-> hs[h].d]
    /\ hs' = [hs EXCEPT ![h].pc = "done"]
    /\ UNCHANGED fileHist
    /\ UNCHANGED <<execVars, cacheVars, keyVars, storeVars, lockVars, expandVars, pipeVars>>

\* The command of a running task writes the file.
CommandWritesInput(c) ==
    /\ Len(fileHist) <= MaxWrites
    /\ fileHist' = Append(fileHist, c)
    /\ UNCHANGED <<entries, hs>>
    /\ UNCHANGED <<execVars, cacheVars, keyVars, storeVars, lockVars, expandVars, pipeVars>>

(***************************************************************************)
(* SpecPayload: ComputeTaskKey applied to two argument lists: a task, the  *)
(* keys of its dependencies and the input files.  The content of a file is *)
(* the sequence of its bytes.                                              *)
(***************************************************************************)
KeyPaths == {"x", "z"}
ContentABC == <<"a", "b", "c">>
ContentABD == <<"a", "b", "d">>
KeyContents == {ContentABC, ContentABD, <<"a", "b">>}

KeyTask(command, inputs, outputs) ==
    [ID |-> "T", Inputs |-> inputs, Outputs |-> outputs, Dependencies |-> <<>>,
     Command |-> command, Cache |-> TRUE]

KeyCommands == {"cat x", "cat x z"}
KeyInputLists == {<<"x">>, <<"x", "z">>}
KeyOutputLists == {<<"y">>, <<"./y">>, <<"y", "w">>, <<"w", "y">>}
DepKeyLists == {<<"k1">>, <<"k1", "k1">>, <<"k1", "k2">>, <<"k2", "k1">>}
KeyFiles == {[q \in KeyPaths |-> IF q = "x" THEN c ELSE <<"z">>] : c \in {ContentABC, ContentABD}}

KeyArgSpace ==
    {[task |-> KeyTask(c, i, o), deps |-> d, files |-> f] :
        c \in KeyCommands, i \in KeyInputLists, o \in KeyOutputLists,
        d \in DepKeyLists, f \in KeyFiles}

NoOut == <<>>

InitPayload ==
    /\ keyArgs \in KeyArgSpace \X KeyArgSpace
    /\ keyOut = NoOut

PayloadIdle ==
    /\ keyArgs = <<>>
    /\ keyOut = NoOut

\* The two calls.
ComputeKeys ==
    /\ keyOut = NoOut
    /\ keyOut' = [n \in 1..2 |->
                    ComputeTaskKey(keyArgs[n].task, keyArgs[n].deps, keyArgs[n].files)]
    /\ UNCHANGED <<keyArgs, disk, clock, stampCache, since, keyLog>>
    /\ UNCHANGED <<execVars, cacheVars, stampVars, storeVars, lockVars, expandVars, pipeVars>>

(***************************************************************************)
(* SpecKey: ComputeTaskKey with a stamp cache, called again and again for  *)
(* the task T = {command "cat x", inputs ["x"], outputs ["y"]} by          *)
(* processes that follow one another; between the calls x is written.  The *)
(* file system stamps a write with its clock, which may or may not have    *)
(* advanced since the write before; a write in place keeps the inode, the  *)
(* mode and the owner.                                                     *)
(***************************************************************************)
TaskT == KeyTask("cat x", <<"x">>, <<"y">>)

\* StatStamp on a file of the disk d.
StatStampOf(d, path) ==
    [MTimeUnixNano |-> d[path].mtime, Size |-> Len(d[path].content),
     Inode |-> IF path = "x" THEN 1 ELSE 2, Mode |-> 420, UID |-> 0, GID |-> 0]

\* FileStamp.Equal.
StampEqual(s, o) ==
    /\ s.MTimeUnixNano = o.MTimeUnixNano
    /\ s.Size = o.Size
    /\ s.Inode = o.Inode
    /\ s.Mode = o.Mode
    /\ s.UID = o.UID
    /\ s.GID = o.GID

NoStampEntry == [ok |-> FALSE]
EmptyStampCache == [q \in KeyPaths |-> NoStampEntry]

\* FileStampCache.Lookup.
StampLookup(c, d, path) ==
    IF c[path].ok /\ StampEqual(c[path].Stamp, StatStampOf(d, path))
    THEN [ok |-> TRUE, digest |-> c[path].Digest]
    ELSE [ok |-> FALSE, digest |-> <<>>]

\* FileStampCache.Update.
StampUpdate(c, d, path, digest) ==
    [c EXCEPT ![path] = [ok |-> TRUE, Stamp |-> StatStampOf(d, path), Digest |-> digest]]

\* The stamp cache after the input loop over paths[from..], lines 174-196.
RECURSIVE StampsAfter(_, _, _, _)
StampsAfter(c, d, paths, from) ==
    IF from > Len(paths) THEN c
    ELSE StampsAfter(IF StampLookup(c, d, paths[from]).ok THEN c
                     ELSE StampUpdate(c, d, paths[from], hashFile(d[paths[from]].content)),
                     d, paths, from + 1)

\* ComputeTaskKey with a stamp cache: a digest comes from Lookup, or on a
\* miss from hashFile, and is then recorded with Update.
ComputeTaskKeyStamps(task, depTaskKeys, d, c) ==
    LET depKeys == SortStrings(depTaskKeys)
        expanded == ExpandFileSpecs([q \in KeyPaths |-> d[q].content], task.Inputs)
        digest(path) == IF StampLookup(c, d, path).ok THEN StampLookup(c, d, path).digest
                        ELSE hashFile(d[path].content)
        tInputs == [i \in 1..Len(expanded.paths) |->
                       [path |-> expanded.paths[i], digest |-> digest(expanded.paths[i])]]
    IN IF expanded.err
       THEN [res |-> [err |-> TRUE, key |-> NoKey, json |-> NoKey], stamps |-> c,
             hit |-> {}]
       ELSE [res |-> TaskKeyOf(taskKeyPayload(task, depKeys, tInputs)),
             stamps |-> StampsAfter(c, d, expanded.paths, 1),
             hit |-> {q \in Range(expanded.paths) : StampLookup(c, d, q).ok}]

NoSince == [written |-> FALSE, loaded |-> FALSE]

InitKey ==
    /\ disk = [q \in KeyPaths |-> [content |-> IF q = "x" THEN ContentABC ELSE <<"z">>,
                                    mtime |-> 0]]
    /\ clock = 0
    /\ stampCache = EmptyStampCache
    /\ since = NoSince
    /\ keyLog = <<>>

KeyIdle ==
    /\ disk = <<>>
    /\ clock = 0
    /\ stampCache = <<>>
    /\ since = NoSince
    /\ keyLog = <<>>

\* The task U = {command "cat z", inputs ["z"], outputs ["u"]} that depends
\* on T.
TaskU ==
    [ID |-> "U", Inputs |-> <<"z">>, Outputs |-> <<"u">>, Dependencies |-> <<"T">>,
     Command |-> "cat z", Cache |-> TRUE]

\* A run that builds U: BuildState.ComputeKey(T, no dependency keys), then
\* BuildState.ComputeKey(U, the key of T), as doExecuteTask calls it for a
\* dependent once the dependency returned (lines 93-102).
KeyCompute ==
    /\ Len(keyLog) < MaxCalls
    /\ LET r == ComputeTaskKeyStamps(TaskT, <<>>, disk, stampCache)
           u == ComputeTaskKeyStamps(TaskU, <<r.res.key>>, disk, r.stamps)
       IN /\ stampCache' = u.stamps
          /\ keyLog' = Append(keyLog, [key |-> r.res.key, json |-> r.res.json,
                                       content |-> disk["x"].content,
                                       hit |-> r.hit, since |-> since,
                                       dependent |-> u.res.key])
    /\ since' = NoSince
    /\ UNCHANGED <<keyArgs, keyOut, disk, clock>>
    /\ UNCHANGED <<execVars, cacheVars, stampVars, storeVars, lockVars, expandVars, pipeVars>>

\* x is written in place: os.WriteFile("x", c).
WriteInput(c) ==
    /\ disk["x"].content # c
    /\ disk' = [disk EXCEPT !["x"] = [content |-> c, mtime |-> clock]]
    /\ since' = [since EXCEPT !.written = TRUE]
    /\ UNCHANGED <<keyArgs, keyOut, clock, stampCache, keyLog>>
    /\ UNCHANGED <<execVars, cacheVars, stampVars, storeVars, lockVars, expandVars, pipeVars>>

\* The clock of the file system advances.
ClockTick ==
    /\ clock < MaxClock
    /\ clock' = clock + 1
    /\ UNCHANGED <<keyArgs, keyOut, disk, stampCache, since, keyLog>>
    /\ UNCHANGED <<execVars, cacheVars, stampVars, storeVars, lockVars, expandVars, pipeVars>>

\* FileStampCache.Load in a process that finds no stamps.json, or a corrupt
\* one: the cache starts empty.
LoadEmpty ==
    /\ stampCache # EmptyStampCache
    /\ stampCache' = EmptyStampCache
    /\ since' = [since EXCEPT !.loaded = TRUE]
    /\ UNCHANGED <<keyArgs, keyOut, disk, clock, keyLog>>
    /\ UNCHANGED <<execVars, cacheVars, stampVars, storeVars, lockVars, expandVars, pipeVars>>

(***************************************************************************)
(* SpecStore: LocalCache.StoreFromDir and LocalCache.Restore for one key,  *)
(* each call from its first line to its return, on a file system in which  *)
(* a name refers to an inode and the inode has the content.  Between the   *)
(* calls commands write workspace files, in place (open with O_TRUNC, as   *)
(* the shell's > does) or by replacing the file, files are deleted, and a  *)
(* process may be killed in the middle of StoreFromDir.                    *)
(***************************************************************************)
LCPaths == {"y", "w"}
LCContents == {"c1", "c2"}
LCOutputLists == {<<>>, <<"y">>, <<"w", "y">>}
Inodes == 1..NumInodes
NoFile == 0

NoManifest == [ok |-> FALSE, outputs |-> <<>>]
NoRecord == [exists |-> FALSE, manifest |-> NoManifest, files |-> [q \in LCPaths |-> NoFile]]

\* The inodes some name refers to; the others are free, and their numbers
\* are given to new files.
Referenced(w, r) == ({w[q] : q \in LCPaths} \cup {r.files[q] : q \in LCPaths}) \ {NoFile}
Lowest(inos) == CHOOSE i \in inos : \A j \in inos : i <= j
FreshInodes(w, r) ==
    LET free == Inodes \ Referenced(w, r)
    IN [q \in LCPaths |-> IF q = "y" THEN Lowest(free) ELSE Lowest(free \ {Lowest(free)})]
Collect(w, r, d) == [i \in Inodes |-> IF i \in Referenced(w, r) THEN d[i] ELSE "free"]

\* A Restore that links without looking first.
PreflightSkipped(r, outputs) == TRUE

\* Restore, lines 78-86: every listed output is in outputs/.
Preflight(r, outputs) == \A i \in 1..Len(outputs) : r.files[outputs[i]] # NoFile

\* A link that leaves a file that is already there.
LinkIntoKeep(w, out, ino) == IF w[out] # NoFile THEN w ELSE [w EXCEPT ![out] = ino]

\* Restore, lines 99-104: os.Remove(dst), then os.Link(src, dst).
LinkInto(w, out, ino) == [w EXCEPT ![out] = ino]

\* Restore, lines 91-105: the loop over the outputs from the i-th on; a
\* source that is not there makes os.Link fail after dst was removed.
RECURSIVE LinkLoop(_, _, _, _)
LinkLoop(w, r, outputs, i) ==
    IF i > Len(outputs) THEN [ws |-> w, err |-> FALSE]
    ELSE IF r.files[outputs[i]] = NoFile
         THEN [ws |-> [w EXCEPT ![outputs[i]] = NoFile], err |-> TRUE]
         ELSE LinkLoop(LinkInto(w, outputs[i], r.files[outputs[i]]), r, outputs, i + 1)

\* LocalCache.Restore.
LocalCacheRestore(w, r) ==
    IF ~r.exists \/ ~r.manifest.ok THEN [hit |-> FALSE, err |-> FALSE, ws |-> w]
    ELSE IF Len(r.manifest.outputs) = 0 THEN [hit |-> FALSE, err |-> FALSE, ws |-> w]
    ELSE IF ~Preflight(r, r.manifest.outputs) THEN [hit |-> FALSE, err |-> FALSE, ws |-> w]
    ELSE LET l == LinkLoop(w, r, r.manifest.outputs, 1)
         IN [hit |-> ~l.err, err |-> l.err, ws |-> l.ws]

\* A StoreFromDir without the deferred os.RemoveAll(tmpDir).
TmpLeftBehind(n) == n + 1

\* StoreFromDir, line 124: the deferred os.RemoveAll(tmpDir) removes the
\* temporary directory on every return.
TmpRemoved(n) == n

\* LocalCache.StoreFromDir with the workspace as base directory: the
\* record, the contents and the temporary directories after it.
LocalCacheStore(w, r, d, n, outputs) ==
    LET sortedOutputs == SortStrings(outputs)
        fresh == FreshInodes(w, r)
        tmpDir == [exists |-> TRUE,
                   manifest |-> [ok |-> TRUE, outputs |-> sortedOutputs],
                   files |-> [q \in LCPaths |-> IF q \in Range(outputs) THEN fresh[q] ELSE NoFile]]
        copied == [i \in Inodes |->
                     IF \E q \in Range(outputs) : fresh[q] = i
                     THEN d[w[CHOOSE q \in Range(outputs) : fresh[q] = i]]
                     ELSE d[i]]
    IN IF \E i \in 1..Len(sortedOutputs) : w[sortedOutputs[i]] = NoFile
       THEN [err |-> TRUE, rec |-> r, data |-> d, tmp |-> TmpRemoved(n)]
       ELSE [err |-> FALSE, rec |-> tmpDir, data |-> Collect(w, tmpDir, copied), tmp |-> n]

\* What a process killed inside os.RemoveAll(tDir), line 161, may leave of
\* the record: any part of it.
Damaged(r) ==
    {[exists |-> r.exists,
      manifest |-> IF m THEN r.manifest ELSE NoManifest,
      files |-> [q \in LCPaths |-> IF q \in keep THEN r.files[q] ELSE NoFile]] :
        m \in BOOLEAN, keep \in SUBSET LCPaths}

NoLast == [op |-> "none"]
NoStored == [ok |-> FALSE]

InitStore ==
    /\ lcWs = [q \in LCPaths |-> NoFile]
    /\ lcRec = NoRecord
    /\ lcData = [i \in Inodes |-> "free"]
    /\ lcTmp = 0
    /\ lcLast = NoLast
    /\ lcStored = NoStored

StoreIdle ==
    /\ lcWs = <<>>
    /\ lcRec = NoRecord
    /\ lcData = <<>>
    /\ lcTmp = 0
    /\ lcLast = NoLast
    /\ lcStored = NoStored

\* BuildState.Restore(key).
RestoreCall ==
    /\ LET res == LocalCacheRestore(lcWs, lcRec)
       IN /\ lcWs' = res.ws
          /\ lcData' = Collect(res.ws, lcRec, lcData)
          /\ lcLast' = [op |-> "Restore", hit |-> res.hit, err |-> res.err,
                        replaced |-> {q \in LCPaths : lcWs[q] # NoFile /\ res.ws[q] # lcWs[q]}]
    /\ UNCHANGED <<lcRec, lcTmp, lcStored>>
    /\ UNCHANGED <<execVars, cacheVars, stampVars, keyVars, lockVars, expandVars, pipeVars>>

\* BuildState.Store(key, taskJSON, outputs).
StoreCall(outputs) ==
    /\ LET res == LocalCacheStore(lcWs, lcRec, lcData, lcTmp, outputs)
       IN /\ lcRec' = res.rec
          /\ lcData' = res.data
          /\ lcTmp' = res.tmp
          /\ lcLast' = [op |-> "Store", outputs |-> outputs, err |-> res.err]
          /\ lcStored' = IF res.err THEN lcStored
                         ELSE [ok |-> TRUE, intact |-> TRUE, outputs |-> Range(outputs),
                               contents |-> [q \in LCPaths |->
                                               IF q \in Range(outputs) THEN lcData[lcWs[q]]
                                               ELSE "free"]]
    /\ UNCHANGED lcWs
    /\ UNCHANGED <<execVars, cacheVars, stampVars, keyVars, lockVars, expandVars, pipeVars>>

\* A command writes a file that is there, in place.
WriteInPlace(q, c) ==
    /\ lcWs[q] # NoFile
    /\ lcData[lcWs[q]] # c
    /\ lcData' = [lcData EXCEPT ![lcWs[q]] = c]
    /\ lcLast' = NoLast
    /\ UNCHANGED <<lcWs, lcRec, lcTmp, lcStored>>
    /\ UNCHANGED <<execVars, cacheVars, stampVars, keyVars, lockVars, expandVars, pipeVars>>

\* A command creates a file (a command that replaces a file deletes it and
\* creates it).
WriteNew(q, c) ==
    /\ lcWs[q] = NoFile
    /\ LET ino == FreshInodes(lcWs, lcRec)[q]
       IN /\ lcWs' = [lcWs EXCEPT ![q] = ino]
          /\ lcData' = Collect(lcWs', lcRec, [lcData EXCEPT ![ino] = c])
    /\ lcLast' = NoLast
    /\ UNCHANGED <<lcRec, lcTmp, lcStored>>
    /\ UNCHANGED <<execVars, cacheVars, stampVars, keyVars, lockVars, expandVars, pipeVars>>

\* A workspace file is deleted.
RemoveFile(q) ==
    /\ lcWs[q] # NoFile
    /\ lcWs' = [lcWs EXCEPT ![q] = NoFile]
    /\ lcData' = Collect(lcWs', lcRec, lcData)
    /\ lcLast' = NoLast
    /\ UNCHANGED <<lcRec, lcTmp, lcStored>>
    /\ UNCHANGED <<execVars, cacheVars, stampVars, keyVars, lockVars, expandVars, pipeVars>>

\* A process is killed inside StoreFromDir, after os.MkdirTemp: the
\* deferred call does not run, and what os.RemoveAll(tDir) had removed is
\* gone.
StoreKilled ==
    /\ lcTmp < MaxTmp
    /\ lcTmp' = lcTmp + 1
    /\ \E r \in Damaged(lcRec) :
          /\ lcRec' = r
          /\ lcData' = Collect(lcWs, r, lcData)
          /\ lcStored' = IF lcStored.ok THEN [lcStored EXCEPT !.intact = @ /\ r = lcRec]
                         ELSE lcStored
    /\ lcLast' = NoLast
    /\ UNCHANGED lcWs
    /\ UNCHANGED <<execVars, cacheVars, stampVars, keyVars, lockVars, expandVars, pipeVars>>

(***************************************************************************)
(* SpecLock: which mutex a thread holds at each statement that does file   *)
(* I/O or runs a subprocess.  The main thread is run(): executor.Load,     *)
(* the build, the deferred executor.Save.  A worker is the goroutine of    *)
(* one task with one input file: TaskMemo.Do, GetDepKeys, ComputeTaskKey   *)
(* (Lookup, hashFile, Update), Set, Restore, the command, Store,           *)
(* UpdateOutputStamps, TaskMemo.store.  A thread at statement X has not    *)
(* executed X yet; a step executes it.                                     *)
(***************************************************************************)
Workers == 1..NumWorkers
MainThread == 0
Threads == {MainThread} \cup Workers
NoThread == NumWorkers + 1
Mutexes == {"FileStampCache.mu", "TaskKeyStore.mu", "TaskMemo.mu"}

\* What os.ReadFile(c.path) and json.Unmarshal give in Load.
LoadFiles == {"missing", "malformed", "unreadable", "valid"}

\* The statements that do file I/O or run a subprocess, and what they do.
IOKind(pc) ==
    CASE pc = "Load.ReadFile" -> "read"
      [] pc = "Save.WriteFile" -> "write"
      [] pc = "Lookup.StatStamp" -> "stat"
      [] pc = "hashFile" -> "hash"
      [] pc = "Update.StatStamp" -> "stat"
      [] pc = "Restore" -> "link"
      [] pc = "cmd.Wait" -> "exec"
      [] pc = "Store" -> "copy"
      [] pc = "UpdateOutputStamps.hashFile" -> "hash"
      [] pc = "UpdateOutputStamps.StatStamp" -> "stat"
      [] OTHER -> "none"

NoLoad == [done |-> FALSE, err |-> FALSE]

InitLock ==
    /\ lkHeld = [m \in Mutexes |-> NoThread]
    /\ lkPc = [th \in Threads |-> IF th = MainThread THEN "Load.Lock" ELSE "idle"]
    /\ lkFile \in LoadFiles
    /\ lkLoad = NoLoad
    /\ lkEntries = FALSE
    /\ lkDirty = FALSE

LockIdle ==
    /\ lkHeld = <<>>
    /\ lkPc = <<>>
    /\ lkFile = "missing"
    /\ lkLoad = NoLoad
    /\ lkEntries = FALSE
    /\ lkDirty = FALSE

\* mu.Lock() by thread th at statement from, which goes on at statement to.
Lock(th, m, from, to) ==
    /\ lkPc[th] = from
    /\ lkHeld[m] = NoThread
    /\ lkHeld' = [lkHeld EXCEPT ![m] = th]
    /\ lkPc' = [lkPc EXCEPT ![th] = to]

\* mu.Unlock().
Unlock(th, m, from, to) ==
    /\ lkPc[th] = from
    /\ lkHeld[m] = th
    /\ lkHeld' = [lkHeld EXCEPT ![m] = NoThread]
    /\ lkPc' = [lkPc EXCEPT ![th] = to]

\* A statement that takes and releases no mutex.
Goto(th, from, to) ==
    /\ lkPc[th] = from
    /\ lkPc' = [lkPc EXCEPT ![th] = to]
    /\ UNCHANGED lkHeld

\* FileStampCache.Load, lines 71-78: a read error other than not-exist is
\* returned.
LoadErr(file) == file = "unreadable"

\* FileStampCache.Load, line 68.
LoadLock ==
    /\ Lock(MainThread, "FileStampCache.mu", "Load.Lock", "Load.ReadFile")
    /\ UNCHANGED <<lkFile, lkLoad, lkEntries, lkDirty>>
    /\ UNCHANGED <<execVars, cacheVars, stampVars, keyVars, storeVars, expandVars, pipeVars>>

\* FileStampCache.Load, lines 71-87: os.ReadFile and json.Unmarshal.
LoadReadFile ==
    /\ Goto(MainThread, "Load.ReadFile", "Load.Unlock")
    /\ lkLoad' = [done |-> TRUE, err |-> LoadErr(lkFile)]
    /\ lkEntries' = (lkFile = "valid")
    /\ UNCHANGED <<lkFile, lkDirty>>
    /\ UNCHANGED <<execVars, cacheVars, stampVars, keyVars, storeVars, expandVars, pipeVars>>

\* The deferred c.mu.Unlock() of Load; run(), lines 80-82, returns on an
\* error of Load, else goes on to the build.
LoadUnlock ==
    /\ Unlock(MainThread, "FileStampCache.mu", "Load.Unlock",
              IF lkLoad.err THEN "exit" ELSE "ExecuteTasks")
    /\ UNCHANGED <<lkFile, lkLoad, lkEntries, lkDirty>>
    /\ UNCHANGED <<execVars, cacheVars, stampVars, keyVars, storeVars, expandVars, pipeVars>>

\* ExecuteTasks, line 72: g.Go starts the goroutine of a task.
GoTask(w) ==
    /\ lkPc[MainThread] = "ExecuteTasks"
    /\ Goto(w, "idle", "tryGet.Lock")
    /\ UNCHANGED <<lkFile, lkLoad, lkEntries, lkDirty>>
    /\ UNCHANGED <<execVars, cacheVars, stampVars, keyVars, storeVars, expandVars, pipeVars>>

\* ExecuteTasks, line 76: g.Wait returns when the goroutines returned; the
\* deferred Save runs next.
BuildWait ==
    /\ \A w \in Workers : lkPc[w] = "done"
    /\ Goto(MainThread, "ExecuteTasks", "Save.Lock")
    /\ UNCHANGED <<lkFile, lkLoad, lkEntries, lkDirty>>
    /\ UNCHANGED <<execVars, cacheVars, stampVars, keyVars, storeVars, expandVars, pipeVars>>

\* FileStampCache.Save, lines 93-98.
SaveLock ==
    /\ Lock(MainThread, "FileStampCache.mu", "Save.Lock",
            IF lkDirty THEN "Save.WriteFile" ELSE "Save.Unlock")
    /\ UNCHANGED <<lkFile, lkLoad, lkEntries, lkDirty>>
    /\ UNCHANGED <<execVars, cacheVars, stampVars, keyVars, storeVars, expandVars, pipeVars>>

\* FileStampCache.Save, lines 100-113: os.MkdirAll and os.WriteFile.
SaveWriteFile ==
    /\ Goto(MainThread, "Save.WriteFile", "Save.Unlock")
    /\ lkFile' = "valid"
    /\ lkDirty' = FALSE
    /\ UNCHANGED <<lkLoad, lkEntries>>
    /\ UNCHANGED <<execVars, cacheVars, stampVars, keyVars, storeVars, expandVars, pipeVars>>

\* The deferred c.mu.Unlock() of Save.
SaveUnlock ==
    /\ Unlock(MainThread, "FileStampCache.mu", "Save.Unlock", "exit")
    /\ UNCHANGED <<lkFile, lkLoad, lkEntries, lkDirty>>
    /\ UNCHANGED <<execVars, cacheVars, stampVars, keyVars, storeVars, expandVars, pipeVars>>

\* The critical sections of TaskMemo and TaskKeyStore, in the order the
\* goroutine of a task enters them, with the statement that follows each:
\* tryGet (task_memo.go:25-27), GetDepKeys (task_key_store.go:31-42), Set
\* (25-27), store (task_memo.go:35-37).
Sections ==
    {<<"tryGet", "TaskMemo.mu", "GetDepKeys.Lock">>,
     <<"GetDepKeys", "TaskKeyStore.mu", "Lookup.Lock">>,
     <<"Set", "TaskKeyStore.mu", "Restore">>,
     <<"store", "TaskMemo.mu", "done">>}

\* m.mu.Lock() / s.mu.Lock() of one of these sections.
SectionLock(w, sec) ==
    /\ Lock(w, sec[2], sec[1] \o ".Lock", sec[1] \o ".Unlock")
    /\ UNCHANGED <<lkFile, lkLoad, lkEntries, lkDirty>>
    /\ UNCHANGED <<execVars, cacheVars, stampVars, keyVars, storeVars, expandVars, pipeVars>>

\* The map access and the Unlock() of the section.
SectionUnlock(w, sec) ==
    /\ Unlock(w, sec[2], sec[1] \o ".Unlock", sec[3])
    /\ UNCHANGED <<lkFile, lkLoad, lkEntries, lkDirty>>
    /\ UNCHANGED <<execVars, cacheVars, stampVars, keyVars, storeVars, expandVars, pipeVars>>

\* FileStampCache.Lookup, lines 120-126: without an entry the deferred
\* Unlock runs at once; else StatStamp is next.
LookupLock(w) ==
    /\ Lock(w, "FileStampCache.mu", "Lookup.Lock",
            IF lkEntries THEN "Lookup.StatStamp" ELSE "Lookup.Miss")
    /\ UNCHANGED <<lkFile, lkLoad, lkEntries, lkDirty>>
    /\ UNCHANGED <<execVars, cacheVars, stampVars, keyVars, storeVars, expandVars, pipeVars>>

\* FileStampCache.Lookup, lines 128-137: StatStamp(path) and the
\* comparison; the stamps are equal or they are not.
LookupStatStamp(w) ==
    /\ \E equal \in BOOLEAN :
          Goto(w, "Lookup.StatStamp", IF equal THEN "Lookup.Hit" ELSE "Lookup.Miss")
    /\ UNCHANGED <<lkFile, lkLoad, lkEntries, lkDirty>>
    /\ UNCHANGED <<execVars, cacheVars, stampVars, keyVars, storeVars, expandVars, pipeVars>>

\* The deferred c.mu.Unlock() of Lookup; ComputeTaskKey, lines 179-185,
\* goes on to hashFile after a miss.
LookupUnlock(w) ==
    /\ \/ Unlock(w, "FileStampCache.mu", "Lookup.Hit", "Set.Lock")
       \/ Unlock(w, "FileStampCache.mu", "Lookup.Miss", "hashFile")
    /\ UNCHANGED <<lkFile, lkLoad, lkEntries, lkDirty>>
    /\ UNCHANGED <<execVars, cacheVars, stampVars, keyVars, storeVars, expandVars, pipeVars>>

\* The statements of a task's goroutine outside the critical sections, each
\* with the statement that follows it: hashFile (part_005:185), StatStamp
\* in Update (part_003:142), the command (task_executor.go:233-250), Store
\* (264), and hashFile and StatStamp of UpdateOutputStamps.
Statements ==
    {<<"hashFile", "Update.StatStamp">>,
     <<"Update.StatStamp", "Update.Lock">>,
     <<"cmd.Wait", "Store">>,
     <<"Store", "UpdateOutputStamps.hashFile">>,
     <<"UpdateOutputStamps.hashFile", "UpdateOutputStamps.StatStamp">>,
     <<"UpdateOutputStamps.StatStamp", "UpdateOutputStamps.Lock">>}

Statement(w, st) ==
    /\ Goto(w, st[1], st[2])
    /\ UNCHANGED <<lkFile, lkLoad, lkEntries, lkDirty>>
    /\ UNCHANGED <<execVars, cacheVars, stampVars, keyVars, storeVars, expandVars, pipeVars>>

\* FileStampCache.Update, lines 147-151, called by ComputeTaskKey and by
\* UpdateOutputStamps, with the statement that follows the call.
Updates == {<<"Update", "Set.Lock">>, <<"UpdateOutputStamps", "store.Lock">>}

UpdateLock(w, u) ==
    /\ Lock(w, "FileStampCache.mu", u[1] \o ".Lock", u[1] \o ".Unlock")
    /\ UNCHANGED <<lkFile, lkLoad, lkEntries, lkDirty>>
    /\ UNCHANGED <<execVars, cacheVars, stampVars, keyVars, storeVars, expandVars, pipeVars>>

UpdateUnlock(w, u) ==
    /\ Unlock(w, "FileStampCache.mu", u[1] \o ".Unlock", u[2])
    /\ lkEntries' = TRUE
    /\ lkDirty' = TRUE
    /\ UNCHANGED <<lkFile, lkLoad>>
    /\ UNCHANGED <<execVars, cacheVars, stampVars, keyVars, storeVars, expandVars, pipeVars>>

\* doExecuteTask, lines 104-117: LocalCache.Restore links the outputs and
\* is a hit, or is a miss and the command runs.
RestoreLinks(w) ==
    /\ \E hit \in BOOLEAN : Goto(w, "Restore", IF hit THEN "store.Lock" ELSE "cmd.Wait")
    /\ UNCHANGED <<lkFile, lkLoad, lkEntries, lkDirty>>
    /\ UNCHANGED <<execVars, cacheVars, stampVars, keyVars, storeVars, expandVars, pipeVars>>

(***************************************************************************)
(* SpecExpand: ExpandFileSpecs.  A path and a spec are the sequences of    *)
(* their characters.  The tree has regular files, directories and special  *)
(* files (a FIFO); doublestar.Glob returns the entries of the tree that    *)
(* the pattern matches, directories included.                              *)
(***************************************************************************)
ax == <<"a", "x">>
by == <<"b", "y">>
dcx == <<"d", "/", "c", "x">>
bangkx == <<"!", "k", "x">>
sx == <<"s", "x">>
dirD == <<"d">>
dirE == <<"e">>

\* The trees: the regular files; d is a directory when d/cx is there, e is
\* an empty directory, sx is a FIFO.
FileSystems ==
    {[reg |-> {ax, by, dcx, bangkx}, dirs |-> {dirD, dirE}, special |-> {}],
     [reg |-> {ax, dcx}, dirs |-> {dirD, dirE}, special |-> {sx}],
     [reg |-> {ax}, dirs |-> {dirE}, special |-> {}],
     [reg |-> {}, dirs |-> {dirE}, special |-> {sx}]}

\* The specs a list is made of.
SpecUniverse ==
    {ax, <<".", "/", "a", "x">>, dcx, dirD, <<"n">>, sx, <<"\\", "!", "k", "x">>,
     <<"*", "*", "/", "*">>, <<"*", "x">>, <<"*", "*", "/", "*", "y">>,
     <<"n", "*">>, <<"e", "*">>, <<"a", "?">>,
     <<"!", "*", "*", "/", "*", "y">>, <<"!", "d">>, <<"!", "n">>, <<"!", "n", "*">>,
     <<"!", "a", "x">>, bangkx, <<"!", "d", "/", "*", "*">>, <<"!">>}

SpecLists == UNION {[1..n -> SpecUniverse] : n \in 0..MaxSpecs}

HasPrefix(s, prefix) == Len(s) >= Len(prefix) /\ SubSeq(s, 1, Len(prefix)) = prefix
TrimPrefixSeq(s, prefix) == IF HasPrefix(s, prefix) THEN SubSeq(s, Len(prefix) + 1, Len(s)) ELSE s
HasSuffix(s, suffix) ==
    Len(s) >= Len(suffix) /\ SubSeq(s, Len(s) - Len(suffix) + 1, Len(s)) = suffix
TrimSuffixSeq(s, suffix) == IF HasSuffix(s, suffix) THEN SubSeq(s, 1, Len(s) - Len(suffix)) ELSE s

\* hasGlobMeta: strings.ContainsAny(s, "*?[").
hasGlobMeta(s) == \E i \in 1..Len(s) : s[i] \in {"*", "?", "["}

\* parseSpec: the escape, the negation, ToSlash (paths have slashes already)
\* and the leading "./".
parseSpec(raw) ==
    IF raw = <<>> THEN [pat |-> <<>>, neg |-> FALSE, err |-> TRUE]
    ELSE LET esc == HasPrefix(raw, <<"\\", "!">>)
             neg == ~esc /\ HasPrefix(raw, <<"!">>)
             r == IF esc THEN TrimPrefixSeq(raw, <<"\\">>)
                  ELSE IF neg THEN TrimPrefixSeq(raw, <<"!">>) ELSE raw
             pat == TrimPrefixSeq(r, <<".", "/">>)
         IN IF (neg /\ r = <<>>) \/ pat = <<>>
            THEN [pat |-> <<>>, neg |-> FALSE, err |-> TRUE]
            ELSE [pat |-> pat, neg |-> neg, err |-> FALSE]

\* The segments of a path or of a pattern, split at the slashes.
RECURSIVE Segments(_)
Segments(s) ==
    IF \A i \in 1..Len(s) : s[i] # "/" THEN <<s>>
    ELSE LET k == CHOOSE i \in 1..Len(s) : s[i] = "/" /\ \A j \in 1..(i - 1) : s[j] # "/"
         IN <<SubSeq(s, 1, k - 1)>> \o Segments(SubSeq(s, k + 1, Len(s)))

\* One segment against one segment of a pattern: * is any run of
\* characters, ? is one character.
RECURSIVE MatchSegment(_, _)
MatchSegment(pat, name) ==
    IF pat = <<>> THEN name = <<>>
    ELSE IF Head(pat) = "*"
         THEN MatchSegment(Tail(pat), name) \/ (name # <<>> /\ MatchSegment(pat, Tail(name)))
    ELSE /\ name # <<>>
         /\ Head(pat) = "?" \/ Head(pat) = Head(name)
         /\ MatchSegment(Tail(pat), Tail(name))

\* The segments of a path against those of a pattern: ** is any number of
\* directories, none included.
RECURSIVE MatchSegments(_, _)
MatchSegments(pats, names) ==
    IF pats = <<>> THEN names = <<>>
    ELSE IF Head(pats) = <<"*", "*">>
         THEN MatchSegments(Tail(pats), names)
                 \/ (names # <<>> /\ MatchSegments(pats, Tail(names)))
    ELSE /\ names # <<>>
         /\ MatchSegment(Head(pats), Head(names))
         /\ MatchSegments(Tail(pats), Tail(names))

\* doublestar.Glob(fsys, pat).
Glob(fs, pat) ==
    {m \in fs.reg \cup fs.dirs \cup fs.special : MatchSegments(Segments(pat), Segments(m))}

\* os.Stat / fs.Stat.
Stat(fs, path) ==
    IF path \in fs.reg THEN "regular"
    ELSE IF path \in fs.dirs THEN "dir"
    ELSE IF path \in fs.special THEN "special"
    ELSE "missing"

\* The order of sort.Strings: byte by byte, a prefix before its extensions.
CharOrder == <<"!", "*", ".", "/", "?", "[", "\\", "a", "b", "c", "d", "e", "k", "n", "s", "x", "y">>
Ord(c) == CHOOSE i \in 1..Len(CharOrder) : CharOrder[i] = c

RECURSIVE Less(_, _)
Less(a, b) ==
    IF a = <<>> THEN b # <<>>
    ELSE IF b = <<>> THEN FALSE
    ELSE IF Head(a) = Head(b) THEN Less(Tail(a), Tail(b))
    ELSE Ord(Head(a)) < Ord(Head(b))

\* The keys of the map, unsorted: in some order.
RECURSIVE KeysUnsorted(_)
KeysUnsorted(set) ==
    IF set = {} THEN <<>>
    ELSE LET last == CHOOSE m \in set : \A o \in set : o = m \/ Less(m, o)
         IN KeysUnsorted(set \ {last}) \o <<last>>

\* ExpandFileSpecs, lines 142-151: the keys of seen, sorted.
RECURSIVE SortedKeys(_)
SortedKeys(set) ==
    IF set = {} THEN <<>>
    ELSE LET least == CHOOSE m \in set : \A o \in set : o = m \/ Less(m, o)
         IN <<least>> \o SortedKeys(set \ {least})

\* ExpandFileSpecs, lines 88-105: added counts the regular matches that
\* were not in seen; a glob that added none is an error.
AddedNone(seen, regular) == regular \ seen = {}

\* A negation that leaves seen as it is.
RemoveNothing(seen, gone) == seen

\* delete(seen, k) for the keys gone.
Remove(seen, gone) == seen \ gone

\* A missing literal path passed over.
StatFailsNever(kind) == FALSE

\* ExpandFileSpecs, lines 128-137: the literal path must be a regular file.
StatFails(kind) == kind # "regular"

\* One iteration of the loop of ExpandFileSpecs, lines 55-140, on the map
\* seen.  The matches of a glob are visited in sorted order; the outcome
\* does not depend on the order: an error discards everything, and else
\* the regular matches are added or the matches removed.
ExpandSpec(fs, seen, raw) ==
    LET ps == parseSpec(raw)
        matches == Glob(fs, ps.pat)
    IN IF ps.err THEN [err |-> TRUE, seen |-> {}]
       ELSE IF hasGlobMeta(ps.pat)
       THEN IF ps.neg THEN [err |-> FALSE, seen |-> Remove(seen, matches)]
            ELSE IF \E m \in matches \ seen : Stat(fs, m) = "special"
                 THEN [err |-> TRUE, seen |-> {}]
            ELSE IF AddedNone(seen, {m \in matches : Stat(fs, m) = "regular"})
                 THEN [err |-> TRUE, seen |-> {}]
            ELSE [err |-> FALSE, seen |-> seen \cup {m \in matches : Stat(fs, m) = "regular"}]
       ELSE IF ps.neg
       THEN IF Stat(fs, ps.pat) = "dir"
            THEN [err |-> FALSE,
                  seen |-> Remove(seen, {k \in seen :
                                HasPrefix(k, TrimSuffixSeq(ps.pat, <<"/">>) \o <<"/">>)})]
            ELSE [err |-> FALSE, seen |-> Remove(seen, {ps.pat})]
       ELSE IF StatFails(Stat(fs, ps.pat)) THEN [err |-> TRUE, seen |-> {}]
       ELSE [err |-> FALSE, seen |-> seen \cup {ps.pat}]

\* The loop from the i-th spec on.
RECURSIVE ExpandFrom(_, _, _, _)
ExpandFrom(fs, seen, specs, i) ==
    IF i > Len(specs) THEN [err |-> FALSE, seen |-> seen]
    ELSE LET r == ExpandSpec(fs, seen, specs[i])
         IN IF r.err THEN r ELSE ExpandFrom(fs, r.seen, specs, i + 1)

\* ExpandFileSpecs(specs) in the tree fs: (nil, err) or the sorted keys.
ExpandFileSpecsFS(fs, specs) ==
    LET r == ExpandFrom(fs, {}, specs, 1)
    IN IF r.err THEN [err |-> TRUE, paths |-> <<>>]
       ELSE [err |-> FALSE, paths |-> SortedKeys(r.seen)]

NoExpansion == [called |-> FALSE]

InitExpand ==
    /\ exFs \in FileSystems
    /\ exSpecs \in SpecLists
    /\ exOut = NoExpansion
    /\ exAgain = NoExpansion

ExpandIdle ==
    /\ exFs = <<>>
    /\ exSpecs = <<>>
    /\ exOut = NoExpansion
    /\ exAgain = NoExpansion

\* ExpandFileSpecs(specs).
Expand ==
    /\ ~exOut.called
    /\ LET r == ExpandFileSpecsFS(exFs, exSpecs)
       IN exOut' = [called |-> TRUE, err |-> r.err, paths |-> r.paths]
    /\ UNCHANGED <<exFs, exSpecs, exAgain>>
    /\ UNCHANGED <<execVars, cacheVars, stampVars, keyVars, storeVars, lockVars, pipeVars>>

\* ExpandFileSpecs(result), for the result of a call that returned no error.
ExpandResult ==
    /\ exOut.called
    /\ ~exOut.err
    /\ ~exAgain.called
    /\ LET r == ExpandFileSpecsFS(exFs, exOut.paths)
       IN exAgain' = [called |-> TRUE, err |-> r.err, paths |-> r.paths]
    /\ UNCHANGED <<exFs, exSpecs, exOut>>
    /\ UNCHANGED <<execVars, cacheVars, stampVars, keyVars, storeVars, lockVars, pipeVars>>

(***************************************************************************)
(* SpecPipe: the command of task T between cmd.Start and the return that   *)
(* follows g.Wait.  The n-th line the process writes to a stream is        *)
(* <<stream, n>>.  cmd.Wait closes the read ends of the pipes that         *)
(* StdoutPipe and StderrPipe returned; a read on a closed end fails.       *)
(***************************************************************************)
Streams == {"stdout", "stderr"}
ExitCodes == {0, 1}

InitPipe ==
    /\ cmdProc = [state |-> "running", code |-> 0, written |-> [s \in Streams |-> 0]]
    /\ pipeBuf = [s \in Streams |-> <<>>]
    /\ pipeOpen = [s \in Streams |-> TRUE]
    /\ copyPc = [s \in Streams |-> "ReadString"]
    /\ logOut = <<>>
    /\ runPc = "cmd.Wait"
    /\ waitErr = FALSE
    /\ runErr = NoErr

PipeIdle ==
    /\ cmdProc = <<>>
    /\ pipeBuf = <<>>
    /\ pipeOpen = <<>>
    /\ copyPc = <<>>
    /\ logOut = <<>>
    /\ runPc = "idle"
    /\ waitErr = FALSE
    /\ runErr = NoErr

\* The process writes a line to a stream.
CmdWrite(s) ==
    /\ cmdProc.state = "running"
    /\ cmdProc.written[s] < MaxLines
    /\ cmdProc' = [cmdProc EXCEPT !.written[s] = @ + 1]
    /\ pipeBuf' = [pipeBuf EXCEPT ![s] = Append(@, <<s, cmdProc.written[s] + 1>>)]
    /\ UNCHANGED <<pipeOpen, copyPc, logOut, runPc, waitErr, runErr>>
    /\ UNCHANGED <<execVars, cacheVars, stampVars, keyVars, storeVars, lockVars, expandVars>>

\* The process exits; the write ends of its pipes are closed with it.
CmdExit(code) ==
    /\ cmdProc.state = "running"
    /\ cmdProc' = [cmdProc EXCEPT !.state = "exited", !.code = code]
    /\ UNCHANGED <<pipeBuf, pipeOpen, copyPc, logOut, runPc, waitErr, runErr>>
    /\ UNCHANGED <<execVars, cacheVars, stampVars, keyVars, storeVars, lockVars, expandVars>>

\* Logger.TaskLine: the line with the prefix of the task.
TaskLine(taskID, line) == [prefix |-> taskID, line |-> line]

\* copyTaskOutput, lines 378-391: one br.ReadString('\n') and what follows
\* it.  A read on the closed end returns an error that is not io.EOF, with
\* no line; a line in the pipe is passed to the logger; an empty pipe whose
\* write end is closed gives io.EOF; otherwise the read blocks.
CopyTaskOutput(s) ==
    /\ copyPc[s] = "ReadString"
    /\ IF ~pipeOpen[s]
       THEN /\ copyPc' = [copyPc EXCEPT ![s] = "err"]
            /\ UNCHANGED <<pipeBuf, logOut>>
       ELSE IF pipeBuf[s] # <<>>
       THEN /\ logOut' = Append(logOut, TaskLine("T", Head(pipeBuf[s])))
            /\ pipeBuf' = [pipeBuf EXCEPT ![s] = Tail(@)]
            /\ UNCHANGED copyPc
       ELSE /\ cmdProc.state = "exited"
            /\ copyPc' = [copyPc EXCEPT ![s] = "nil"]
            /\ UNCHANGED <<pipeBuf, logOut>>
    /\ UNCHANGED <<cmdProc, pipeOpen, runPc, waitErr, runErr>>
    /\ UNCHANGED <<execVars, cacheVars, stampVars, keyVars, storeVars, lockVars, expandVars>>

\* executeTaskRun, line 251: cmd.Wait returns once the process has exited,
\* and has closed the read ends of the two pipes.
CmdWait ==
    /\ runPc = "cmd.Wait"
    /\ cmdProc.state = "exited"
    /\ pipeOpen' = [s \in Streams |-> FALSE]
    /\ waitErr' = (cmdProc.code # 0)
    /\ runPc' = "g.Wait"
    /\ UNCHANGED <<cmdProc, pipeBuf, copyPc, logOut, runErr>>
    /\ UNCHANGED <<execVars, cacheVars, stampVars, keyVars, storeVars, lockVars, expandVars>>

\* executeTaskRun, lines 252-258: g.Wait returns when both goroutines
\* returned; a copy error comes before the error of cmd.Wait.
CopyWait ==
    /\ runPc = "g.Wait"
    /\ \A s \in Streams : copyPc[s] # "ReadString"
    /\ runErr' = IF \E s \in Streams : copyPc[s] = "err" THEN ErrReadOutput("T")
                 ELSE IF waitErr THEN ErrExec("T")
                 ELSE NoErr
    /\ runPc' = "after"
    /\ UNCHANGED <<cmdProc, pipeBuf, pipeOpen, copyPc, logOut, waitErr>>
    /\ UNCHANGED <<execVars, cacheVars, stampVars, keyVars, storeVars, lockVars, expandVars>>

Init == InitExec /\ InitCache /\ InitStamp /\ PayloadIdle /\ KeyIdle /\ StoreIdle /\ LockIdle /\ ExpandIdle /\ PipeIdle
Next == NextExec
Spec == Init /\ [][Next]_vars

\* The builds of the acyclic task maps in which callers share
\* dependencies: the diamond, the chain with B asked for as a root and as
\* the dependency of C, a list with an id that is no task, and the twins.
LiveLists == {<<"X", "Y">>, <<"C", "B">>, <<"Y", "nope">>, <<"g.h", "g_h">>}

InitLive ==
    /\ InitExecOf(LiveLists)
    /\ InitCache /\ InitStamp /\ PayloadIdle /\ KeyIdle /\ StoreIdle /\ LockIdle /\ ExpandIdle
    /\ PipeIdle

\* A step of the build in progress: any step but the start of the next
\* executor.
Running == NextExec /\ run' = run

\* The executor under a scheduler that does not stop while a goroutine can
\* run, with commands that terminate: some step of the build is taken as
\* long as one is possible.
SpecLive == InitLive /\ [][Next]_vars /\ WF_vars(Running)

InitC == ExecIdle /\ InitCache /\ InitStamp /\ PayloadIdle /\ KeyIdle /\ StoreIdle /\ LockIdle /\ ExpandIdle /\ PipeIdle
NextC == NextCache
SpecCache == InitC /\ [][NextC]_vars

InitL == ExecIdle /\ InitCache /\ InitStamp /\ PayloadIdle /\ KeyIdle /\ InitStore /\ LockIdle /\ ExpandIdle /\ PipeIdle
NextL ==
    \/ RestoreCall
    \/ \E outputs \in LCOutputLists : StoreCall(outputs)
    \/ \E q \in LCPaths, c \in LCContents : WriteInPlace(q, c) \/ WriteNew(q, c)
    \/ \E q \in LCPaths : RemoveFile(q)
    \/ StoreKilled
SpecStore == InitL /\ [][NextL]_vars

InitLk == ExecIdle /\ InitCache /\ InitStamp /\ PayloadIdle /\ KeyIdle /\ StoreIdle /\ InitLock /\ ExpandIdle /\ PipeIdle
NextLk ==
    \/ LoadLock \/ LoadReadFile \/ LoadUnlock
    \/ BuildWait
    \/ SaveLock \/ SaveWriteFile \/ SaveUnlock
    \/ \E w \in Workers :
          \/ GoTask(w)
          \/ \E sec \in Sections : SectionLock(w, sec) \/ SectionUnlock(w, sec)
          \/ LookupLock(w) \/ LookupStatStamp(w) \/ LookupUnlock(w)
          \/ \E st \in Statements : Statement(w, st)
          \/ \E u \in Updates : UpdateLock(w, u) \/ UpdateUnlock(w, u)
          \/ RestoreLinks(w)
SpecLock == InitLk /\ [][NextLk]_vars

InitE ==
    /\ ExecIdle /\ InitCache /\ InitStamp /\ PayloadIdle /\ KeyIdle /\ StoreIdle /\ LockIdle
    /\ InitExpand /\ PipeIdle
NextE == Expand \/ ExpandResult
SpecExpand == InitE /\ [][NextE]_vars

InitPp ==
    /\ ExecIdle /\ InitCache /\ InitStamp /\ PayloadIdle /\ KeyIdle /\ StoreIdle /\ LockIdle
    /\ ExpandIdle /\ InitPipe
NextPp ==
    \/ \E s \in Streams : CmdWrite(s) \/ CopyTaskOutput(s)
    \/ \E code \in ExitCodes : CmdExit(code)
    \/ CmdWait
    \/ CopyWait
SpecPipe == InitPp /\ [][NextPp]_vars

InitP == ExecIdle /\ InitCache /\ InitStamp /\ InitPayload /\ KeyIdle /\ StoreIdle /\ LockIdle /\ ExpandIdle /\ PipeIdle
NextP == ComputeKeys
SpecPayload == InitP /\ [][NextP]_vars

InitK == ExecIdle /\ InitCache /\ InitStamp /\ PayloadIdle /\ InitKey /\ StoreIdle /\ LockIdle /\ ExpandIdle /\ PipeIdle
NextK ==
    \/ KeyCompute
    \/ \E c \in KeyContents : WriteInput(c)
    \/ ClockTick
    \/ LoadEmpty
SpecKey == InitK /\ [][NextK]_vars

InitS == ExecIdle /\ InitCache /\ InitStamp /\ PayloadIdle /\ KeyIdle /\ StoreIdle /\ LockIdle /\ ExpandIdle /\ PipeIdle
NextS ==
    \/ \E h \in Hashers : Lookup(h) \/ HashInput(h) \/ UpdateStat(h) \/ UpdateStore(h)
    \/ \E c \in Contents : CommandWritesInput(c)
SpecStamp == InitS /\ [][NextS]_vars

(***************************************************************************)
(* Properties of the executor, checked under Spec.                         *)
(***************************************************************************)
Returned(t) == Len(fnRes[t]) > 0
FailedDeps(t) == {d \in Range(taskMap[t].Dependencies) : memoBy[d].done /\ memoBy[d].err # NoErr}

\* C1: under concurrent ExecuteTasks calls that reference overlapping task
\* ids, directly or through dependencies, doExecuteTask runs at most once
\* for each task id, and so does its command.
AtMostOnce == \A t \in TaskIDs : bodyRuns[t] <= 1 /\ cmdRuns[t] <= 1

\* Two goroutines of different ExecuteTasks calls finished the same task id,
\* whose body ran.
AtMostOnceWitness ==
    \E p, q \in Nodes :
        /\ Parent(p) # Parent(q)
        /\ go[p].pc = "done" /\ go[q].pc = "done"
        /\ TaskOf(p).ID = TaskOf(q).ID
        /\ bodyRuns[TaskOf(p).ID] = 1

\* C2: every call of TaskMemo.Do returns the error of the one execution of
\* fn for its task id, whether it found the result in the memo, led the
\* single-flight call or joined it; the stored result is that error and
\* stays so.
MemoResult ==
    /\ \A p \in Nodes :
          go[p].pc = "done" =>
              /\ fnRes[TaskOf(p).ID] = <<go[p].err>>
              /\ memoBy[TaskOf(p).ID] = [done |-> TRUE, err |-> go[p].err]
    /\ \A t \in TaskIDs :
          memoBy[t].done => fnRes[t] = <<memoBy[t].err>> /\ bodyRuns[t] = 1

\* A failed execution whose error reached a caller that joined the call in
\* flight and a caller that found the stored result.
MemoResultWitness ==
    \E p, q \in Nodes :
        /\ go[p].pc = "done" /\ go[q].pc = "done"
        /\ TaskOf(p).ID = TaskOf(q).ID
        /\ go[p].err # NoErr
        /\ go[p].call \notin {NoCall, p}
        /\ go[q].call = NoCall

\* C3: when a dependency of a task failed, the task never starts its
\* command and fails with the error of a failed dependency: with util the
\* one dependency of X and of Y, both fail with the error util returned.
DepFailurePropagates ==
    \A t \in DOMAIN taskMap :
        FailedDeps(t) # {} =>
            /\ cmdRuns[t] = 0
            /\ memoBy[t].done => memoBy[t].err \in {memoBy[d].err : d \in FailedDeps(t)}

\* util failed; X and Y, executed together, returned util's error.
DepFailureWitness ==
    /\ rootIDs[1] = <<"X", "Y">>
    /\ frame[<<1>>].state = "ret"
    /\ memoBy["util"] = [done |-> TRUE, err |-> ErrExec("util")]
    /\ memoBy["X"] = memoBy["util"]
    /\ memoBy["Y"] = memoBy["util"]
    /\ frame[<<1>>].ret = ErrExec("util")

\* C4, as claimed: a cacheable task that succeeded in the first run and has
\* the same key in the next run (inputs, command and dependencies did not
\* change) is, in the next run on the cache the first one filled, a cache
\* hit that starts no command and leaves the same output files.
CacheIdempotent ==
    run > 1 =>
        \A t \in DOMAIN taskMap :
            (taskMap[t].Cache /\ t \in first.ok /\ Returned(t)
                 /\ keysBy[t] = first.keys[t]) =>
                /\ fnRes[t] = <<NoErr>>
                /\ cmdRuns[t] = 0
                /\ hits[t] = 1
                /\ \A o \in Range(taskMap[t].Outputs) : ws[o] = first.ws[o]

\* C4, amended: the same for a cacheable task that has at least one output.
CacheIdempotentWithOutputs ==
    run > 1 =>
        \A t \in DOMAIN taskMap :
            (taskMap[t].Cache /\ Len(taskMap[t].Outputs) > 0 /\ t \in first.ok
                 /\ Returned(t) /\ keysBy[t] = first.keys[t]) =>
                /\ fnRes[t] = <<NoErr>>
                /\ cmdRuns[t] = 0
                /\ hits[t] = 1
                /\ \A o \in Range(taskMap[t].Outputs) : ws[o] = first.ws[o]

\* X, which ran its command in the first run, returned in the second.
CacheIdempotentWitness ==
    /\ run = 2
    /\ "X" \in first.ok
    /\ fnRes["X"] = <<NoErr>>
    /\ hits["X"] = 1
    /\ ws["x"] = <<"X", 1>>

\* C8, as claimed: on every path by which a task's execution returns, the
\* task's key is in the key store.
KeySetOnEveryReturn == \A t \in TaskIDs : Returned(t) => keysBy[t] # NoKey

\* C8, amended: when a task's execution returns, its key is in the key store
\* exactly if the execution passed the key computation: it returned without
\* error, or with the error of its own command or of its own store.
KeySetAfterKeyComputation ==
    \A t \in TaskIDs :
        Returned(t) =>
            (keysBy[t] # NoKey <=>
                fnRes[t][1] \in {NoErr, ErrStart(t), ErrExec(t), ErrExpandOutputs(t),
                                 ErrStore(t)})

\* X returned without error and its key is set; util's command failed after
\* its key was set.
KeySetWitness ==
    \/ fnRes["X"] = <<NoErr>> /\ keysBy["X"] # NoKey /\ cmdRuns["X"] = 1
    \/ fnRes["util"] = <<ErrExec("util")>> /\ keysBy["util"] # NoKey

\* C9: a task that reads its dependency keys after its dependencies returned
\* without error finds the key of every dependency, the one key that the
\* dependency computed in this run; no execution returns the missing-key error.
DepKeysPresent ==
    /\ \A p \in Nodes :
          go[p].pc = "getDepKeys" =>
              \A d \in Range(TaskOf(p).Dependencies) :
                  keysBy[d] # NoKey /\ computed[d] = <<keysBy[d]>>
    /\ \A t \in TaskIDs : \A d \in TaskIDs :
          \A i \in 1..Len(fnRes[t]) : fnRes[t][i] # ErrMissingKey(d)

\* A task with a dependency is about to read the dependency keys.
DepKeysWitness ==
    \E p \in Nodes :
        /\ go[p].pc = "getDepKeys"
        /\ Len(TaskOf(p).Dependencies) > 0
        /\ frame[p].state = "ret" /\ frame[p].ret = NoErr

\* C10, as claimed: when ExecuteTasks has returned, every goroutine it
\* started, directly or below, has returned.
ReturnsAfterScheduled ==
    \A f \in Frames :
        frame[f].state = "ret" =>
            \A p \in Nodes : IsPrefix(f, p) => go[p].pc \in {"idle", "done"}

NoTornRead ==
    \A w \in Twins :
        (tw[w].seen # 0 /\ tw[w].pc \notin {"stat", "link"}) =>
            tw[w].hit = "hit" /\ \A o \in Outs : tw[w].got[o] = tw[w].seen

\* C5, as claimed: whenever manifest.json is in the task directory, so is
\* every output it lists, and a reader that saw a manifest gets the whole
\* record of that manifest: never a partly removed record, never a mix.
ReaderSeesWholeRecord ==
    /\ (tdir.exists /\ tdir.manifest) => tdir.files = Outs
    /\ NoTornRead

\* C6, as claimed: Stores racing on one key all return without error, the
\* record left when they are over is the one of the last rename, and no
\* reader sees a torn record.
RacingStoresTolerated ==
    /\ \A w \in Twins : tw[w].res # "err"
    /\ ((\A w \in Twins : tw[w].pc = "done") /\ renames # <<>>) =>
           tdir = TmpDir(renames[Len(renames)])
    /\ NoTornRead

(***************************************************************************)
(* Property of the stamp cache, checked under SpecStamp.                   *)
(***************************************************************************)
\* C7, as claimed: the stored entry pairs a stamp with the hash of the
\* content the file had at that stamp, and a digest that Lookup returned is
\* the hash of the content the file had at the stamp Lookup observed.
StampCacheSound ==
    /\ entries.ok => entries.Digest = hashFile(fileHist[entries.Stamp])
    /\ \A h \in Hashers : hs[h].hit => hs[h].d = hashFile(fileHist[hs[h].stamp])

(***************************************************************************)
(* Properties of the task-key computer, checked under SpecPayload and      *)
(* SpecKey.                                                                *)
(***************************************************************************)
ExpandedPaths(a) == Range(ExpandFileSpecs(a.files, a.task.Inputs).paths)
DigestDiffers(a, b) ==
    \E q \in ExpandedPaths(a) \cap ExpandedPaths(b) : hashFile(a.files[q]) # hashFile(b.files[q])
NamedOutputs(task) == [i \in 1..Len(task.Outputs) |-> TrimPrefix(ToSlash(task.Outputs[i]), "./")]
KeysDiffer == keyOut[1].key # keyOut[2].key /\ keyOut[1].json # keyOut[2].json

\* C15, as claimed: two calls that differ in the command, in the digest of
\* an input, in the set of expanded input paths, in the declared output
\* specs or in the multiset of dependency keys return different keys.
KeySensitive ==
    keyOut # NoOut =>
        LET a == keyArgs[1]
            b == keyArgs[2]
        IN (\/ a.task.Command # b.task.Command
            \/ DigestDiffers(a, b)
            \/ ExpandedPaths(a) # ExpandedPaths(b)
            \/ a.task.Outputs # b.task.Outputs
            \/ ~IsPermutation(a.deps, b.deps)) => KeysDiffer

\* C15, amended: the same with the output specs compared as the multiset
\* of the declared specs without their leading "./"; two calls that differ
\* in nothing of this return the same key.
KeySensitiveToNamedOutputs ==
    keyOut # NoOut =>
        LET a == keyArgs[1]
            b == keyArgs[2]
        IN (\/ a.task.Command # b.task.Command
            \/ DigestDiffers(a, b)
            \/ ExpandedPaths(a) # ExpandedPaths(b)
            \/ ~IsPermutation(NamedOutputs(a.task), NamedOutputs(b.task))
            \/ ~IsPermutation(a.deps, b.deps)) <=> KeysDiffer

\* Two calls that differ in one output only returned different keys.
KeySensitiveWitness ==
    /\ keyOut # NoOut
    /\ keyArgs[1].task.Outputs = <<"./y">>
    /\ keyArgs[2].task.Outputs = <<"w", "y">>
    /\ keyArgs[1].task.Command = keyArgs[2].task.Command
    /\ keyArgs[1].task.Inputs = keyArgs[2].task.Inputs
    /\ keyArgs[1].files = keyArgs[2].files
    /\ keyArgs[1].deps = keyArgs[2].deps
    /\ KeysDiffer

\* Two output specs that are the same but for a leading "./", and two
\* output lists that are a rearrangement of one another but for that.
SameOutputSpec(s, t) == s = t \/ s = "./" \o t \/ t = "./" \o s
OutputsRearranged(q, s) ==
    /\ Len(q) = Len(s)
    /\ \E f \in [1..Len(s) -> 1..Len(s)] :
          /\ \A i, j \in 1..Len(s) : i # j => f[i] # f[j]
          /\ \A i \in 1..Len(s) : SameOutputSpec(q[i], s[f[i]])

\* C31: two calls of ComputeTaskKey with the same command, inputs and
\* files, whose dependency-key lists are permutations of one another and
\* whose output lists are permutations of one another but for a leading
\* "./" of a spec, return the same key and the same canonical bytes.
KeyOrderIndependent ==
    keyOut # NoOut =>
        LET a == keyArgs[1]
            b == keyArgs[2]
        IN (/\ a.task.Command = b.task.Command
            /\ a.task.Inputs = b.task.Inputs
            /\ a.files = b.files
            /\ IsPermutation(a.deps, b.deps)
            /\ OutputsRearranged(a.task.Outputs, b.task.Outputs)) =>
               /\ keyOut[1].key = keyOut[2].key
               /\ keyOut[1].json = keyOut[2].json

\* Two calls that differ in the order of the dependency keys and in the
\* order of the outputs returned one key.
KeyOrderIndependentWitness ==
    /\ keyOut # NoOut
    /\ keyArgs[1].deps = <<"k1", "k2">>
    /\ keyArgs[2].deps = <<"k2", "k1">>
    /\ keyArgs[1].task.Outputs = <<"y", "w">>
    /\ keyArgs[2].task.Outputs = <<"w", "y">>
    /\ keyArgs[1].task.Command = keyArgs[2].task.Command
    /\ keyArgs[1].task.Inputs = keyArgs[2].task.Inputs
    /\ keyArgs[1].files = keyArgs[2].files
    /\ ~keyOut[1].err
    /\ keyOut[1].key = keyOut[2].key

(***************************************************************************)
(* Properties of the output of a command, checked under SpecPipe.          *)
(***************************************************************************)
\* The lines the process wrote, and how often the logger got a line.
WrittenLines == {<<s, n>> : s \in Streams, n \in 1..MaxLines}
Written(l) == l \in WrittenLines /\ l[2] <= cmdProc.written[l[1]]
TimesLogged(l) == Cardinality({i \in 1..Len(logOut) : logOut[i] = TaskLine("T", l)})

\* C33, as claimed: when executeTaskRun is past g.Wait, every line the
\* command wrote to stdout or stderr was passed to the logger exactly once
\* with the prefix of the task, and if the command exited with status 0
\* the error is not the read-output error.
OutputStreamed ==
    runPc = "after" =>
        /\ \A l \in WrittenLines : Written(l) => TimesLogged(l) = 1
        /\ cmdProc.code = 0 => runErr = NoErr

\* What holds of the output: the logger gets only lines the command wrote,
\* each at most once, with the prefix of the task and in the order of
\* their stream; and when executeTaskRun is past g.Wait without the
\* read-output error, every line was logged.
OutputStreamedUnlessClosed ==
    /\ runPc # "idle" =>
          /\ \A i \in 1..Len(logOut) :
                logOut[i].prefix = "T" /\ Written(logOut[i].line)
          /\ \A l \in WrittenLines : TimesLogged(l) <= 1
          /\ \A i, j \in 1..Len(logOut) :
                (i < j /\ logOut[i].line[1] = logOut[j].line[1]) =>
                    logOut[i].line[2] < logOut[j].line[2]
    /\ (runPc = "after" /\ runErr # ErrReadOutput("T")) =>
          \A l \in WrittenLines : Written(l) => TimesLogged(l) = 1

\* The command wrote a line to each stream and exited with status 0, and
\* executeTaskRun went on without error with both lines logged.
OutputStreamedWitness ==
    /\ runPc = "after"
    /\ runErr = NoErr
    /\ cmdProc.code = 0
    /\ \A s \in Streams : cmdProc.written[s] = MaxLines
    /\ Len(logOut) = 2 * MaxLines

\* The command exited with status 0, and executeTaskRun returns the
\* read-output error with a line of the command never logged.
OutputLost ==
    /\ runPc = "after"
    /\ cmdProc.code = 0
    /\ runErr = ErrReadOutput("T")
    /\ \E l \in WrittenLines : Written(l) /\ TimesLogged(l) = 0

\* C14: a call of ComputeTaskKey for the same task and dependency keys,
\* before which the input files were not written since the call before,
\* returns the key and the canonical bytes the call before returned,
\* whether its digests come from the stamp cache or from hashFile.
KeyDeterministic ==
    \A i \in 2..Len(keyLog) :
        ~keyLog[i].since.written =>
            /\ keyLog[i].key = keyLog[i - 1].key
            /\ keyLog[i].json = keyLog[i - 1].json

\* C16: with one stamp cache, three calls between which the content of x
\* is changed and then changed back return K1, K2 # K1 and K3 = K1.
KeyStableThroughStamps ==
    \A i \in 1..Len(keyLog) :
        (/\ i + 2 <= Len(keyLog)
         /\ keyLog[i + 1].content # keyLog[i].content
         /\ keyLog[i + 2].content = keyLog[i].content
         /\ ~keyLog[i + 1].since.loaded
         /\ ~keyLog[i + 2].since.loaded) =>
            /\ keyLog[i + 1].key # keyLog[i].key
            /\ keyLog[i + 2].key = keyLog[i].key

\* C39: when the content of the input x of T differs between two runs
\* that follow one another, T and the task U that depends on T get in the
\* second run keys that differ from their keys of the first run, so that
\* neither is served from a record of the first run.
TransitiveInvalidation ==
    \A i \in 2..Len(keyLog) :
        keyLog[i].content # keyLog[i - 1].content =>
            /\ keyLog[i].key # keyLog[i - 1].key
            /\ keyLog[i].dependent # keyLog[i - 1].dependent

\* Invalidation is transitive where both runs took the digest of the
\* changed input by hashing the file: the keys of T and of U both differ.
InvalidatedWhenHashed ==
    \A i \in 2..Len(keyLog) :
        (/\ keyLog[i].content # keyLog[i - 1].content
         /\ "x" \notin keyLog[i].hit
         /\ "x" \notin keyLog[i - 1].hit) =>
            /\ keyLog[i].key # keyLog[i - 1].key
            /\ keyLog[i].dependent # keyLog[i - 1].dependent

\* The key of the dependent follows the key of its dependency: the keys
\* of U in two runs differ exactly when the keys of T differ.
DependentFollows ==
    \A i, j \in 1..Len(keyLog) :
        (keyLog[i].key = keyLog[j].key) <=> (keyLog[i].dependent = keyLog[j].dependent)

\* Two runs on one stamp cache between which x was rewritten with another
\* content: the second run took the digest of x from the stamp cache, and
\* T and U have the keys of the first run.
StaleDependentKey ==
    \E i \in 2..Len(keyLog) :
        /\ keyLog[i].content # keyLog[i - 1].content
        /\ keyLog[i].since.written
        /\ ~keyLog[i].since.loaded
        /\ "x" \in keyLog[i].hit
        /\ keyLog[i].key = keyLog[i - 1].key
        /\ keyLog[i].dependent = keyLog[i - 1].dependent

\* C21: a cacheable task that declares no outputs is never a cache hit: in
\* every run it reports no cache hit, also when the cache has a record
\* under its key, and an execution of it that returned without error
\* started its command.
EmptyRecordNeverHit ==
    \A t \in DOMAIN taskMap :
        (taskMap[t].Cache /\ Len(taskMap[t].Outputs) = 0) =>
            /\ hits[t] = 0
            /\ fnRes[t] = <<NoErr>> => cmdRuns[t] = 1

\* Y returned without error in the second run and started its command,
\* with the record of the first run under the same key in the cache.
EmptyRecordNeverHitWitness ==
    /\ taskMap = Diamond
    /\ run = 2
    /\ "Y" \in first.ok
    /\ keysBy["Y"] = first.keys["Y"]
    /\ keysBy["Y"] \in DOMAIN cache
    /\ Len(cache[keysBy["Y"]].outputs) = 0
    /\ fnRes["Y"] = <<NoErr>>
    /\ cmdRuns["Y"] = 1

\* A goroutine waits in singleflight for the call of a goroutine that, in
\* g.Wait below doExecuteTask, waits for it: the call's leader started it,
\* directly or through the dependencies of its dependencies.
WaitsForAncestor(p) == go[p].pc = "groupWait" /\ IsPrefix(go[p].call, p)

\* C23: in a build of a task map with a dependency cycle no goroutine waits
\* for the execution that waits for it, and no root call of ExecuteTasks is
\* left without a step that could make it return.
CycleRejected ==
    taskMap = Cycle =>
        /\ \A p \in Nodes : ~WaitsForAncestor(p)
        /\ \A f \in Roots : frame[f].state # "ret" => ENABLED NextExec

\* The task maps without a dependency cycle; every dependency id of theirs
\* is the id of a task.
Acyclic == taskMap \in {Diamond, Chain, Twin}

\* Every call of ExecuteTasks that was made, for the roots or for the
\* dependencies of a task, has returned.
AllCallsReturned == \A f \in Frames : frame[f].state \in {"none", "ret"}

\* C38: in a build of an acyclic task map whose commands terminate every
\* call of ExecuteTasks eventually returns, in every interleaving of the
\* goroutines and in every run: callers of one task at several places of
\* the graph never wait for each other for ever on the memo, the
\* single-flight group or the error group.
ExecuteTasksReturns == Acyclic ~> AllCallsReturned

\* C and B were asked for together: the goroutine of B below the root
\* joined the call in flight of the goroutine of B below C, so it made no
\* call for the dependencies of B, and every call that was made returned.
ExecuteTasksReturnsWitness ==
    /\ taskMap = Chain
    /\ rootIDs[1] = <<"C", "B">>
    /\ AllCallsReturned
    /\ \A p \in Nodes : go[p].pc \in {"idle", "done"}
    /\ go[<<1, 2>>].pc = "done"
    /\ go[<<1, 2>>].call = <<1, 1, 1>>
    /\ frame[<<1, 2>>].state = "none"
    /\ frame[<<1, 1, 1>>].state = "ret"
    /\ frame[<<1>>].state = "ret"

(***************************************************************************)
(* Properties of ExpandFileSpecs, checked under SpecExpand.                *)
(***************************************************************************)
\* The call returned, and what it returned for the specs before the last.
Expanded == exOut.called /\ Len(exSpecs) > 0
LastSpec == parseSpec(exSpecs[Len(exSpecs)])
BeforeLast == ExpandFileSpecsFS(exFs, SubSeq(exSpecs, 1, Len(exSpecs) - 1))
RegularMatches(pat) == {m \in Glob(exFs, pat) : Stat(exFs, m) = "regular"}
Ascending(paths) == \A i \in 1..(Len(paths) - 1) : Less(paths[i], paths[i + 1])
StartsWithBang(paths) == \E i \in 1..Len(paths) : Head(paths[i]) = "!"

GlobFailsOnlyWithoutFiles ==
    (Expanded /\ ~LastSpec.err /\ hasGlobMeta(LastSpec.pat) /\ ~BeforeLast.err) =>
        /\ ~LastSpec.neg => (exOut.err <=> RegularMatches(LastSpec.pat) = {})
        /\ (LastSpec.neg /\ Glob(exFs, LastSpec.pat) = {}) => ~exOut.err

\* The same where the glob matches no special file and no file that the
\* specs before it gave: the errors of the claim's statement that remain.
GlobFailsOnlyWithoutNewFiles ==
    (Expanded /\ ~LastSpec.err /\ hasGlobMeta(LastSpec.pat) /\ ~BeforeLast.err) =>
        /\ (~LastSpec.neg /\ Glob(exFs, LastSpec.pat) \cap exFs.special = {}
                /\ RegularMatches(LastSpec.pat) \cap Range(BeforeLast.paths) = {}) =>
               (exOut.err <=> RegularMatches(LastSpec.pat) = {})
        /\ LastSpec.neg => ~exOut.err

\* What a negated spec matches: the matches of the glob, the entries under
\* the literal directory, or the one literal path.
Negated(spec) ==
    IF hasGlobMeta(spec.pat) THEN Glob(exFs, spec.pat)
    ELSE IF spec.pat \in exFs.dirs
         THEN {k \in exFs.reg : HasPrefix(k, spec.pat \o <<"/">>)}
    ELSE {spec.pat}

\* C26: a negated last spec gives no error and removes from what the specs
\* before it gave exactly the files it matches; a negated first spec has
\* no effect on what the specs after it give.
NegationInOrder ==
    /\ (Expanded /\ ~LastSpec.err /\ LastSpec.neg /\ ~BeforeLast.err) =>
           /\ ~exOut.err
           /\ Range(exOut.paths) = Range(BeforeLast.paths) \ Negated(LastSpec)
    /\ (Expanded /\ ~parseSpec(exSpecs[1]).err /\ parseSpec(exSpecs[1]).neg) =>
           /\ exOut.err = ExpandFileSpecsFS(exFs, Tail(exSpecs)).err
           /\ exOut.paths = ExpandFileSpecsFS(exFs, Tail(exSpecs)).paths

\* **/* followed by !d returned the files outside d.
NegationInOrderWitness ==
    /\ exOut.called
    /\ exSpecs = <<<<"*", "*", "/", "*">>, <<"!", "d">>>>
    /\ dcx \in exFs.reg
    /\ exOut.paths = <<bangkx, ax, by>>

\* C27: when the specs before it gave no error, a last spec without glob
\* metacharacters that is not negated gives an error if the path is
\* missing, a directory or a special file, and else adds the path; a call
\* that returns an error returns no path.
LiteralMustBeRegular ==
    /\ (Expanded /\ ~LastSpec.err /\ ~LastSpec.neg /\ ~hasGlobMeta(LastSpec.pat)
            /\ ~BeforeLast.err) =>
           /\ exOut.err <=> Stat(exFs, LastSpec.pat) \in {"missing", "dir", "special"}
           /\ ~exOut.err => Range(exOut.paths) = Range(BeforeLast.paths) \cup {LastSpec.pat}
    /\ (exOut.called /\ exOut.err) => exOut.paths = <<>>

\* ax followed by the directory d returned an error and no path.
LiteralMustBeRegularWitness ==
    /\ exOut.called
    /\ exSpecs = <<ax, dirD>>
    /\ dirD \in exFs.dirs
    /\ exOut.err
    /\ exOut.paths = <<>>

(***************************************************************************)
(* Properties of the mutexes and of Load, checked under SpecLock.          *)
(***************************************************************************)
HeldBy(th) == {m \in Mutexes : lkHeld[m] = th}

\* C22: a thread that is at a statement that runs a subprocess, hashes a
\* file, copies or links files or does any other file I/O (a stat, a read,
\* a write) holds none of the three mutexes.
LockingDiscipline ==
    \A th \in Threads : IOKind(lkPc[th]) # "none" => HeldBy(th) = {}

\* The same for the subprocess, the hashing and the copying and linking
\* alone: the statements under a mutex that do file I/O are the StatStamp
\* of Lookup, the os.ReadFile of Load and the os.WriteFile of Save.
NoLockAcrossExecHashCopy ==
    /\ \A th \in Threads :
           IOKind(lkPc[th]) \in {"exec", "hash", "copy", "link"} => HeldBy(th) = {}
    /\ \A th \in Threads :
           (IOKind(lkPc[th]) # "none" /\ HeldBy(th) # {}) =>
               /\ HeldBy(th) = {"FileStampCache.mu"}
               /\ lkPc[th] \in {"Lookup.StatStamp", "Load.ReadFile", "Save.WriteFile"}

\* One goroutine is at the StatStamp of Lookup with the mutex, the other
\* waits for the mutex in Update with its digest computed.
NoLockAcrossExecHashCopyWitness ==
    /\ lkPc[1] = "Lookup.StatStamp"
    /\ lkHeld["FileStampCache.mu"] = 1
    /\ lkPc[2] = "Update.Lock"

\* C30: whatever reading the persisted file gives (no file, malformed
\* JSON, another read error), Load returns no error, the cache is empty and
\* the run goes on to the build.
LoadNeverFatal ==
    (lkLoad.done /\ lkFile \in {"missing", "malformed", "unreadable"}) =>
        /\ ~lkLoad.err
        /\ lkPc[MainThread] = "Load.Unlock" => ~lkEntries
        /\ lkPc[MainThread] # "exit"

\* The same without the other read errors: no file and malformed JSON.
\* (The run that went on to the build writes the file in Save before it
\* exits, which makes the file valid.)
LoadNotFatalOnMissingOrMalformed ==
    (lkLoad.done /\ lkFile \in {"missing", "malformed"}) =>
        /\ ~lkLoad.err
        /\ lkPc[MainThread] = "Load.Unlock" => ~lkEntries
        /\ lkPc[MainThread] # "exit"

(***************************************************************************)
(* Properties of the local cache, checked under SpecStore.                 *)
(***************************************************************************)
SameContents(w1, d1, w2, d2) ==
    \A q \in LCPaths :
        /\ (w1[q] = NoFile) = (w2[q] = NoFile)
        /\ w1[q] # NoFile => d1[w1[q]] = d2[w2[q]]

\* C17: a Restore that finds no manifest, or a manifest one of whose
\* outputs is not in outputs/, returns a miss, and every workspace file is
\* the file it was (same inode, same content): nothing removed, nothing
\* linked.
RestoreNeverPartial ==
    [][(/\ RestoreCall
        /\ \/ ~lcRec.exists
           \/ ~lcRec.manifest.ok
           \/ \E q \in Range(lcRec.manifest.outputs) : lcRec.files[q] = NoFile) =>
           /\ ~lcLast'.hit
           /\ ~lcLast'.err
           /\ lcWs' = lcWs
           /\ SameContents(lcWs', lcData', lcWs, lcData)]_vars

\* A Restore returned a miss on a record whose manifest lists w and y, with
\* w in outputs/ and y not, and another file w in the workspace.
RestoreNeverPartialWitness ==
    /\ lcLast.op = "Restore"
    /\ ~lcLast.hit
    /\ lcRec.manifest.ok
    /\ Range(lcRec.manifest.outputs) = {"w", "y"}
    /\ lcRec.files["w"] # NoFile
    /\ lcRec.files["y"] = NoFile
    /\ lcWs["w"] # NoFile
    /\ lcWs["w"] # lcRec.files["w"]

\* C18: after a Restore that reported a hit, every output the manifest
\* lists is in the workspace and is the inode that outputs/ has under that
\* path, whatever file was at the path before.
RestoreLinksOutputs ==
    (lcLast.op = "Restore" /\ lcLast.hit) =>
        \A q \in Range(lcRec.manifest.outputs) :
            /\ lcWs[q] # NoFile
            /\ lcWs[q] = lcRec.files[q]

\* A Restore reported a hit and replaced two files of the workspace.
RestoreLinksOutputsWitness ==
    /\ lcLast.op = "Restore"
    /\ lcLast.hit
    /\ lcLast.replaced = {"w", "y"}
    /\ Range(lcRec.manifest.outputs) = {"w", "y"}

\* C19: a Store one of whose outputs is not in the workspace fails; the
\* record of the key is the record it was, with the contents it had, and
\* tasks/ has no temporary directory more than before.  (The steps that
\* leave lcLast'.op = "Store" are the StoreCall steps, and lcLast'.outputs
\* is the argument of the call.)
StoreMissingSourceFails ==
    [][(/\ lcLast'.op = "Store"
        /\ \E q \in Range(lcLast'.outputs) : lcWs[q] = NoFile) =>
           /\ lcLast'.err
           /\ lcRec' = lcRec
           /\ \A q \in LCPaths :
                 lcRec.files[q] # NoFile => lcData'[lcRec.files[q]] = lcData[lcRec.files[q]]
           /\ lcTmp' = lcTmp]_vars

\* A Store of w and y failed with y in the workspace and w not, and the
\* record stored before is there, whole.
StoreMissingSourceFailsWitness ==
    /\ lcLast.op = "Store"
    /\ lcLast.err
    /\ lcLast.outputs = <<"w", "y">>
    /\ lcWs["y"] # NoFile
    /\ lcWs["w"] = NoFile
    /\ lcStored.ok
    /\ lcStored.intact
    /\ lcRec.manifest.ok
    /\ Range(lcRec.manifest.outputs) = {"w", "y"}
    /\ \A q \in LCPaths : lcRec.files[q] # NoFile /\ lcData[lcRec.files[q]] = lcStored.contents[q]

\* C35, as claimed: as long as no later Store replaced the record and no
\* killed process damaged it, every output file of the record has the
\* content it had when it was stored, whatever was restored and whatever
\* commands wrote in the workspace since.
RecordImmutable ==
    (lcStored.ok /\ lcStored.intact /\ lcRec.exists /\ lcRec.manifest.ok
        /\ Range(lcRec.manifest.outputs) = lcStored.outputs) =>
        \A q \in lcStored.outputs :
            lcRec.files[q] # NoFile => lcData[lcRec.files[q]] = lcStored.contents[q]

\* The record is immutable until it is restored: while no workspace file
\* is a link to a file of the record, the record has the stored contents.
RecordImmutableUnlessLinked ==
    (lcStored.ok /\ lcStored.intact /\ lcRec.exists /\ lcRec.manifest.ok
        /\ Range(lcRec.manifest.outputs) = lcStored.outputs
        /\ lcLast.op = "Store" /\ ~lcLast.err) =>
        \A q \in lcStored.outputs :
            /\ lcRec.files[q] # NoFile
            /\ lcData[lcRec.files[q]] = lcStored.contents[q]
            /\ lcRec.files[q] # lcWs[q]

\* The output y of the record is the file y of the workspace, and its
\* content is not the one that was stored.
RecordRewritten ==
    /\ lcStored.ok /\ lcStored.intact
    /\ lcRec.exists /\ lcRec.manifest.ok
    /\ "y" \in lcStored.outputs
    /\ lcRec.files["y"] # NoFile
    /\ lcRec.files["y"] = lcWs["y"]
    /\ lcData[lcRec.files["y"]] # lcStored.contents["y"]

\* C20: a Restore that follows a successful Store is a hit and leaves in
\* the workspace exactly the outputs that were stored, with the contents
\* they had when they were stored; after a successful Store the record
\* consists of the outputs of that Store and of nothing else.
StoreRestoreRoundTrip ==
    /\ (lcLast.op = "Restore" /\ lcStored.ok /\ lcStored.intact) =>
           /\ lcLast.hit
           /\ Range(lcRec.manifest.outputs) = lcStored.outputs
           /\ \A q \in lcStored.outputs :
                 lcWs[q] # NoFile /\ lcData[lcWs[q]] = lcStored.contents[q]
    /\ (lcLast.op = "Store" /\ ~lcLast.err) =>
           /\ lcRec.exists /\ lcRec.manifest.ok
           /\ Range(lcRec.manifest.outputs) = Range(lcLast.outputs)
           /\ \A q \in LCPaths : lcRec.files[q] # NoFile <=> q \in Range(lcLast.outputs)

====
